---- MODULE Spec2Model ----
(***************************************************************************)
(* BearLang translator: the indentation-aware lexer, the recursive-descent *)
(* parser and the C++ code generator with block-scoped name mangling.      *)
(*                                                                         *)
(* Source text is a string; a character is a string of length 1.  The      *)
(* Cyrillic keywords are written in Latin transliteration (celoe, drobnoe, *)
(* stroka, logika, esli, inache, poka, dlya, vvod, vyvod, i, ili, ne, ot,  *)
(* do, pravda, lozh), as are the messages of the errors, because a string  *)
(* of the module holds ASCII only.  Every byte of a keyword is identifier  *)
(* material in the program (a byte >= 128) and in the model (a letter).    *)
(***************************************************************************)
EXTENDS Integers, Sequences, FiniteSets, TLC

VARIABLES
    lexer,        \* the Lexer object: source_, current_, line_, column_, atLineStart_, indentStack_, tokens_
    lexResult,    \* what tokenize() gave its caller: nothing yet, the tokens, or a LexerError
    parser,       \* the Parser object: tokens_, current_
    parseResult,  \* what parseProgram() gave its caller: nothing yet, the Program, or a ParserError
    gen,          \* a running CodeGenerator::generate: its NameMangler, its output, what is left to emit
    genResult,    \* what generate() returned: nothing yet, or the C++ text
    app,          \* translateAndRun and compileAndRun: the file written, the commands run, std::cerr
    run,          \* the generated program while it runs: its line, its blocks, what it printed
    translation   \* what BearLangTranslator::translate returned: nothing yet, or its TranslationResult

vars == <<lexer, lexResult, parser, parseResult, gen, genResult, app, run, translation>>

(***************************************************************************)
(* Bounds of the model.                                                    *)
(***************************************************************************)
MaxLines == 3

(***************************************************************************)
(* token.h                                                                 *)
(***************************************************************************)
Token(type, lexeme, line, column) ==
    [type |-> type, lexeme |-> lexeme, line |-> line, column |-> column]

kKeywords ==
    [w \in {"celoe", "drobnoe", "stroka", "logika", "esli", "inache", "poka", "dlya",
            "vvod", "vyvod", "i", "ili", "ne", "ot", "do", "pravda", "lozh"} |->
        CASE w = "celoe"   -> "KeywordInteger"
          [] w = "drobnoe" -> "KeywordDouble"
          [] w = "stroka"  -> "KeywordString"
          [] w = "logika"  -> "KeywordLogic"
          [] w = "esli"    -> "KeywordIf"
          [] w = "inache"  -> "KeywordElse"
          [] w = "poka"    -> "KeywordWhile"
          [] w = "dlya"    -> "KeywordFor"
          [] w = "vvod"    -> "KeywordInput"
          [] w = "vyvod"   -> "KeywordOutput"
          [] w = "i"       -> "KeywordAnd"
          [] w = "ili"     -> "KeywordOr"
          [] w = "ne"      -> "KeywordNot"
          [] w = "ot"      -> "KeywordFrom"
          [] w = "do"      -> "KeywordTo"
          [] w = "pravda"  -> "KeywordTrue"
          [] w = "lozh"    -> "KeywordFalse"]

isTypeKeyword(type) ==
    type \in {"KeywordInteger", "KeywordDouble", "KeywordString", "KeywordLogic"}

(***************************************************************************)
(* Characters.  Indices are those of the program: 0-based.                 *)
(***************************************************************************)
Digits == {"0", "1", "2", "3", "4", "5", "6", "7", "8", "9"}

Letters ==
    {"a", "b", "c", "d", "e", "f", "g", "h", "i", "j", "k", "l", "m", "n", "o", "p", "q",
     "r", "s", "t", "u", "v", "w", "x", "y", "z"}

CharAt(s, i) == SubSeq(s, i + 1, i + 1)

Back(stack) == stack[Len(stack)]

PopBack(stack) == SubSeq(stack, 1, Len(stack) - 1)

\* F(value), with the value computed once and then named: the local variable of the
\* code that holds the result of a call.
Bind(value, F(_)) == CHOOSE result \in {F(v) : v \in {value}} : TRUE

TabWidth == 4

(***************************************************************************)
(* The Lexer object.                                                       *)
(***************************************************************************)
NewLexer(source) ==
    [source_      |-> source,
     current_     |-> 0,
     line_        |-> 1,
     column_      |-> 1,
     atLineStart_ |-> TRUE,
     indentStack_ |-> <<0>>,
     tokens_      |-> <<>>,
     thrown       |-> FALSE,       \* a LexerError is propagating
     what         |-> ""]          \* its message

Throw(lx, message) == [lx EXCEPT !.thrown = TRUE, !.what = message]

pushToken(lx, type) ==
    [lx EXCEPT !.tokens_ = Append(@, Token(type, "", lx.line_, lx.column_))]

peekChar(lx, offset) ==
    IF lx.current_ + offset >= Len(lx.source_) THEN "NUL"
    ELSE CharAt(lx.source_, lx.current_ + offset)

isIdentifierStart(ch) == ch \in Letters \/ ch = "_"

isIdentifierPart(ch) == ch \in Letters \/ ch \in Digits \/ ch = "_"

RECURSIVE PopWhileLess(_, _, _)
PopWhileLess(lx, spaces, line) ==
    IF spaces < Back(lx.indentStack_)
    THEN PopWhileLess([lx EXCEPT !.indentStack_ = PopBack(@),
                                 !.tokens_ = Append(@, Token("Dedent", "", line, 1))],
                      spaces, line)
    ELSE lx

\* handleIndentation without its check of the level reached.
handleIndentation_unchecked(lx, spaces, line) ==
    IF spaces > Back(lx.indentStack_)
    THEN [lx EXCEPT !.indentStack_ = Append(@, spaces),
                    !.tokens_ = Append(@, Token("Indent", "", line, 1))]
    ELSE PopWhileLess(lx, spaces, line)

\* handleIndentation that pushes a level already on top of the stack.
handleIndentation_pushesEqual(lx, spaces, line) ==
    IF spaces >= Back(lx.indentStack_)
    THEN [lx EXCEPT !.indentStack_ = Append(@, spaces),
                    !.tokens_ = Append(@, Token("Indent", "", line, 1))]
    ELSE LET popped == PopWhileLess(lx, spaces, line)
         IN  IF spaces # Back(popped.indentStack_)
             THEN Throw(popped, "Nesoglasovannyj otstup na stroke " \o ToString(line))
             ELSE popped

handleIndentation(lx, spaces, line) ==
    IF spaces > Back(lx.indentStack_)
    THEN [lx EXCEPT !.indentStack_ = Append(@, spaces),
                    !.tokens_ = Append(@, Token("Indent", "", line, 1))]
    ELSE LET popped == PopWhileLess(lx, spaces, line)
         IN  IF spaces # Back(popped.indentStack_)
             THEN Throw(popped, "Nesoglasovannyj otstup na stroke " \o ToString(line))
             ELSE popped

\* emitPendingDedents with `if` for `while`.
emitPendingDedents_once(lx, line) ==
    IF Len(lx.indentStack_) > 1
    THEN [lx EXCEPT !.indentStack_ = PopBack(@),
                    !.tokens_ = Append(@, Token("Dedent", "", line, 1))]
    ELSE lx

RECURSIVE emitPendingDedents(_, _)
emitPendingDedents(lx, line) ==
    IF Len(lx.indentStack_) > 1
    THEN emitPendingDedents([lx EXCEPT !.indentStack_ = PopBack(@),
                                       !.tokens_ = Append(@, Token("Dedent", "", line, 1))],
                            line)
    ELSE lx

\* skipComment that leaves the comment where it is.
skipComment_stays(lx) == lx

RECURSIVE skipComment(_)
skipComment(lx) ==
    IF lx.current_ < Len(lx.source_) /\ CharAt(lx.source_, lx.current_) # "\n"
    THEN skipComment([lx EXCEPT !.current_ = @ + 1, !.column_ = @ + 1])
    ELSE lx

RECURSIVE identifierEnd(_, _)
identifierEnd(source, at) ==
    IF at < Len(source) /\ isIdentifierPart(CharAt(source, at))
    THEN identifierEnd(source, at + 1)
    ELSE at

scanIdentifierOrKeyword(lx) ==
    LET start == lx.current_
        stop  == identifierEnd(lx.source_, start)
        text  == SubSeq(lx.source_, start + 1, stop)
        type  == IF text \in DOMAIN kKeywords THEN kKeywords[text] ELSE "Identifier"
    IN  [lx EXCEPT !.current_ = stop,
                   !.column_ = @ + (stop - start),
                   !.tokens_ = Append(@, Token(type, text, lx.line_, lx.column_))]

\* The end of the number that starts at `at`, and whether a '.' was taken.
RECURSIVE numberEnd(_, _, _)
numberEnd(source, at, seenDot) ==
    IF at >= Len(source) THEN [stop |-> at, seenDot |-> seenDot]
    ELSE LET ch == CharAt(source, at)
         IN  IF ch \in Digits THEN numberEnd(source, at + 1, seenDot)
             ELSE IF ch = "." /\ ~seenDot
                       /\ at + 1 < Len(source) /\ CharAt(source, at + 1) \in Digits
                  THEN numberEnd(source, at + 1, TRUE)
                  ELSE [stop |-> at, seenDot |-> seenDot]

scanNumber(lx) ==
    LET start == lx.current_
        e     == numberEnd(lx.source_, start, FALSE)
        type  == IF e.seenDot THEN "DoubleLiteral" ELSE "IntegerLiteral"
    IN  [lx EXCEPT !.current_ = e.stop,
                   !.column_ = @ + (e.stop - start),
                   !.tokens_ = Append(@, Token(type, SubSeq(lx.source_, start + 1, e.stop),
                                                lx.line_, lx.column_))]

\* The loop of scanString: lx stands after the opening quote.
RECURSIVE scanStringLoop(_, _, _)
scanStringLoop(lx, value, startColumn) ==
    IF lx.current_ >= Len(lx.source_) THEN Throw(lx, "Nezakrytaya stroka")
    ELSE
    LET ch == CharAt(lx.source_, lx.current_)
        step == [lx EXCEPT !.current_ = @ + 1, !.column_ = @ + 1]
    IN  IF ch = "\n"
        THEN Throw(lx, "Strokovyj literal ne mozhet perenositsya na novuyu stroku")
        ELSE IF ch = "\""
        THEN [step EXCEPT !.tokens_ =
                  Append(@, Token("StringLiteral", value, lx.line_, startColumn))]
        ELSE IF ch = "\\"
        THEN IF step.current_ >= Len(lx.source_)
             THEN Throw(step, "Nezavershyonnaya escape-posledovatelnost")
             ELSE LET next == CharAt(lx.source_, step.current_)
                      after == [step EXCEPT !.current_ = @ + 1, !.column_ = @ + 1]
                  IN  CASE next = "\\" -> scanStringLoop(after, value \o "\\", startColumn)
                        [] next = "\"" -> scanStringLoop(after, value \o "\"", startColumn)
                        [] next = "n"  -> scanStringLoop(after, value \o "\n", startColumn)
                        [] next = "t"  -> scanStringLoop(after, value \o "\t", startColumn)
                        [] OTHER -> Throw(step, "Neizvestnaya escape-posledovatelnost")
        ELSE scanStringLoop(step, value \o ch, startColumn)

scanString(lx) ==
    scanStringLoop([lx EXCEPT !.current_ = @ + 1, !.column_ = @ + 1], "", lx.column_)

scanOperator(lx) ==
    LET ch == CharAt(lx.source_, lx.current_)
        one(type) == [pushToken(lx, type) EXCEPT !.current_ = @ + 1, !.column_ = @ + 1]
        two(type) == [pushToken(lx, type) EXCEPT !.current_ = @ + 2, !.column_ = @ + 2]
    IN  CASE ch = "+" -> one("Plus")
          [] ch = "-" -> one("Minus")
          [] ch = "*" -> one("Star")
          [] ch = "/" -> one("Slash")
          [] ch = "%" -> one("Percent")
          [] ch = "^" -> one("Caret")
          [] ch = "(" -> one("LeftParen")
          [] ch = ")" -> one("RightParen")
          [] ch = "," -> one("Comma")
          [] ch = "=" -> IF peekChar(lx, 1) = "=" THEN two("Equal") ELSE one("Assign")
          [] ch = "<" -> IF peekChar(lx, 1) = "=" THEN two("LessEqual") ELSE one("Less")
          [] ch = ">" -> IF peekChar(lx, 1) = "=" THEN two("GreaterEqual") ELSE one("Greater")
          [] OTHER -> Throw(lx, "Neizvestnyj simvol '" \o ch \o "' na stroke "
                                    \o ToString(lx.line_) \o ":" \o ToString(lx.column_))

\* countIndent with a tab counted as one column.
RECURSIVE countIndent_tabAsOne(_, _, _)
countIndent_tabAsOne(source, temp, indentCount) ==
    IF temp >= Len(source) THEN [temp |-> temp, indentCount |-> indentCount]
    ELSE LET ch == CharAt(source, temp)
         IN  CASE ch = " "  -> countIndent_tabAsOne(source, temp + 1, indentCount + 1)
               [] ch = "\t" -> countIndent_tabAsOne(source, temp + 1, indentCount + 1)
               [] ch = "\r" -> countIndent_tabAsOne(source, temp + 1, indentCount)
               [] OTHER -> [temp |-> temp, indentCount |-> indentCount]

\* The scan of the leading indentation of a line: where it ends and its width.
RECURSIVE countIndent(_, _, _)
countIndent(source, temp, indentCount) ==
    IF temp >= Len(source) THEN [temp |-> temp, indentCount |-> indentCount]
    ELSE LET ch == CharAt(source, temp)
         IN  CASE ch = " "  -> countIndent(source, temp + 1, indentCount + 1)
               [] ch = "\t" -> countIndent(source, temp + 1, indentCount + TabWidth)
               [] ch = "\r" -> countIndent(source, temp + 1, indentCount)
               [] OTHER -> [temp |-> temp, indentCount |-> indentCount]

\* The rest of one pass of the loop of tokenize, from `char ch = source_[current_]`.
scanOne(lx) ==
    IF lx.current_ >= Len(lx.source_) THEN lx
    ELSE
    LET ch == CharAt(lx.source_, lx.current_)
    IN  CASE ch = " " \/ ch = "\t" -> [lx EXCEPT !.current_ = @ + 1, !.column_ = @ + 1]
          [] ch = "\r" -> [lx EXCEPT !.current_ = @ + 1]
          [] ch = "\n" -> [pushToken(lx, "Newline") EXCEPT !.current_ = @ + 1,
                                                          !.line_ = @ + 1,
                                                          !.column_ = 1,
                                                          !.atLineStart_ = TRUE]
          [] ch = "/" /\ peekChar(lx, 1) = "/" -> skipComment(lx)
          [] ch = "\"" -> scanString(lx)
          [] ch \in Digits -> scanNumber(lx)
          [] OTHER -> IF isIdentifierStart(ch) THEN scanIdentifierOrKeyword(lx)
                      ELSE scanOperator(lx)

\* tokenizePass without the branch for a line that starts with a comment.
tokenizePass_commentIndents(lx) ==
    IF ~lx.atLineStart_ THEN scanOne(lx)
    ELSE
    LET c    == countIndent(lx.source_, lx.current_, 0)
        temp == c.temp
    IN  IF temp >= Len(lx.source_) THEN [lx EXCEPT !.current_ = temp]
        ELSE IF CharAt(lx.source_, temp) = "\n"
        THEN scanOne([lx EXCEPT !.current_ = temp, !.column_ = 1])
        ELSE LET h == handleIndentation(lx, c.indentCount, lx.line_)
             IN  IF h.thrown THEN h
                 ELSE scanOne([h EXCEPT !.current_ = temp,
                                        !.column_ = c.indentCount + 1,
                                        !.atLineStart_ = FALSE])

\* One pass of the loop of tokenize (current_ < source_.size()).
tokenizePass(lx) ==
    IF ~lx.atLineStart_ THEN scanOne(lx)
    ELSE
    LET c    == countIndent(lx.source_, lx.current_, 0)
        temp == c.temp
    IN  IF temp >= Len(lx.source_) THEN [lx EXCEPT !.current_ = temp]
        ELSE IF CharAt(lx.source_, temp) = "\n"
        THEN scanOne([lx EXCEPT !.current_ = temp, !.column_ = 1])
        ELSE IF CharAt(lx.source_, temp) = "/" /\ temp + 1 < Len(lx.source_)
                /\ CharAt(lx.source_, temp + 1) = "/"
        THEN skipComment([lx EXCEPT !.current_ = temp, !.column_ = c.indentCount + 1])
        ELSE LET h == handleIndentation(lx, c.indentCount, lx.line_)
             IN  IF h.thrown THEN h
                 ELSE scanOne([h EXCEPT !.current_ = temp,
                                        !.column_ = c.indentCount + 1,
                                        !.atLineStart_ = FALSE])

\* The end of tokenize, after its loop.
tokenizeEnd(lx) == pushToken(emitPendingDedents(lx, lx.line_), "EndOfFile")

\* Up to n passes of the loop of tokenize, as long as it neither throws nor ends.
RECURSIVE tokenizePasses(_, _)
tokenizePasses(lx, n) ==
    IF lx.thrown \/ lx.current_ >= Len(lx.source_) THEN lx
    ELSE IF n = 1 THEN tokenizePass(lx)
    ELSE Bind(tokenizePasses(lx, n \div 2), LAMBDA half :
             tokenizePasses(half, n - (n \div 2)))

\* tokenize, run to its end: the Lexer as it returns or throws.  Every pass takes at
\* least one character or throws, so Len(source_) passes are all there can be.
tokenize(lx) ==
    Bind(tokenizePasses(lx, Len(lx.source_) + 1), LAMBDA last :
        IF last.thrown THEN last ELSE tokenizeEnd(last))

NoResult == [kind |-> "none", tokens |-> <<>>, what |-> ""]

(***************************************************************************)
(* ast.h                                                                   *)
(***************************************************************************)
NullExpr == [kind |-> "Null"]      \* a null ExprPtr

makeLiteral(type, text, boolValue) ==
    [kind |-> "Literal", type |-> type, text |-> text, boolValue |-> boolValue]

makeVariable(name) == [kind |-> "Variable", name |-> name]

makeUnary(op, operand) == [kind |-> "Unary", op |-> op, operand |-> operand]

makeBinary(op, left, right) == [kind |-> "Binary", op |-> op, left |-> left, right |-> right]

makeVarDecl(type, name, initializer) ==
    [kind |-> "VarDecl", type |-> type, name |-> name, initializer |-> initializer]

makeAssign(name, value) == [kind |-> "Assign", name |-> name, value |-> value]

makeInput(name) == [kind |-> "Input", name |-> name]

makeOutput(value) == [kind |-> "Output", value |-> value]

makeIf(branches, elseBranch, hasElse) ==
    [kind |-> "If", branches |-> branches, elseBranch |-> elseBranch, hasElse |-> hasElse]

IfBranch(condition, body) == [condition |-> condition, body |-> body]

makeWhile(condition, body) == [kind |-> "While", condition |-> condition, body |-> body]

makeFor(type, name, from, to, body) ==
    [kind |-> "ForRange", type |-> type, name |-> name, from |-> from, to |-> to,
     body |-> body]

(***************************************************************************)
(* The Parser object.  A parse function gives the parser as it leaves it   *)
(* (p) and what it built (node, body or type).                             *)
(***************************************************************************)
NewParser(tokens) == [tokens_ |-> tokens, current_ |-> 0, thrown |-> FALSE, what |-> ""]

ParserThrow(p, message) == [p EXCEPT !.thrown = TRUE, !.what = message]

peek(p) == p.tokens_[p.current_ + 1]

previous(p) == p.tokens_[p.current_]

isAtEnd(p) == peek(p).type = "EndOfFile"

check(p, type) == IF isAtEnd(p) THEN FALSE ELSE peek(p).type = type

advance(p) == IF ~isAtEnd(p) THEN [p EXCEPT !.current_ = @ + 1] ELSE p

consume(p, type, message) == IF check(p, type) THEN advance(p) ELSE ParserThrow(p, message)

\* match: the parser after it; whether it matched is check(p, type).
match(p, type) == IF check(p, type) THEN advance(p) ELSE p

RECURSIVE skipNewlines(_)
skipNewlines(p) == IF check(p, "Newline") THEN skipNewlines(advance(p)) ELSE p

expectNewline(p, context) ==
    IF check(p, "Newline") THEN skipNewlines(advance(p))
    ELSE IF check(p, "Dedent") \/ check(p, "EndOfFile") THEN p
    ELSE ParserThrow(p, "Ozhidaetsya perevod stroki posle " \o context)

parseTypeKeyword(p, context) ==
    CASE check(p, "KeywordInteger") -> [p |-> advance(p), type |-> "Integer"]
      [] check(p, "KeywordDouble")  -> [p |-> advance(p), type |-> "Double"]
      [] check(p, "KeywordString")  -> [p |-> advance(p), type |-> "String"]
      [] check(p, "KeywordLogic")   -> [p |-> advance(p), type |-> "Boolean"]
      [] OTHER -> [p |-> ParserThrow(p, "Ozhidaetsya tip dlya " \o context),
                   type |-> "Unknown"]

Failed(p) == [p |-> p, node |-> NullExpr]

RECURSIVE parseExpression(_), parseOr(_), parseOrLoop(_, _), parseAnd(_), parseAndLoop(_, _),
          parseEquality(_), parseEqualityLoop(_, _), parseComparison(_),
          parseComparisonLoop(_, _), parseTerm(_), parseTermLoop(_, _), parseFactor(_),
          parseFactorLoop(_, _), parsePower(_), parsePowerLeftLoop(_, _), parseUnary(_),
          parsePrimary(_)

parsePrimary(p) ==
    CASE check(p, "IntegerLiteral") ->
             [p |-> advance(p), node |-> makeLiteral("Integer", peek(p).lexeme, FALSE)]
      [] check(p, "DoubleLiteral") ->
             [p |-> advance(p), node |-> makeLiteral("Double", peek(p).lexeme, FALSE)]
      [] check(p, "StringLiteral") ->
             [p |-> advance(p), node |-> makeLiteral("String", peek(p).lexeme, FALSE)]
      [] check(p, "KeywordTrue") ->
             [p |-> advance(p), node |-> makeLiteral("Boolean", "true", TRUE)]
      [] check(p, "KeywordFalse") ->
             [p |-> advance(p), node |-> makeLiteral("Boolean", "false", FALSE)]
      [] check(p, "Identifier") ->
             [p |-> advance(p), node |-> makeVariable(peek(p).lexeme)]
      [] check(p, "LeftParen") ->
             Bind(parseExpression(advance(p)), LAMBDA expr :
                 IF expr.p.thrown THEN expr
                 ELSE [p |-> consume(expr.p, "RightParen", "Ozhidaetsya ')' "),
                       node |-> expr.node])
      [] OTHER ->
             Failed(ParserThrow(p, "Neozhidannyj token '" \o peek(p).lexeme \o "'"))

\* parseUnary whose operand reaches over a following ^.
parseUnary_overPower(p) ==
    IF check(p, "Minus")
    THEN Bind(parsePower(advance(p)), LAMBDA operand :
             IF operand.p.thrown THEN operand
             ELSE [p |-> operand.p, node |-> makeUnary("-", operand.node)])
    ELSE IF check(p, "KeywordNot")
    THEN Bind(parsePower(advance(p)), LAMBDA operand :
             IF operand.p.thrown THEN operand
             ELSE [p |-> operand.p, node |-> makeUnary("!", operand.node)])
    ELSE parsePrimary(p)

parseUnary(p) ==
    IF check(p, "Minus")
    THEN Bind(parseUnary(advance(p)), LAMBDA operand :
             IF operand.p.thrown THEN operand
             ELSE [p |-> operand.p, node |-> makeUnary("-", operand.node)])
    ELSE IF check(p, "KeywordNot")
    THEN Bind(parseUnary(advance(p)), LAMBDA operand :
             IF operand.p.thrown THEN operand
             ELSE [p |-> operand.p, node |-> makeUnary("!", operand.node)])
    ELSE parsePrimary(p)

\* parsePower that folds a chain of ^ to the left.
parsePowerLeftLoop(p, expr) ==
    IF check(p, "Caret")
    THEN Bind(parseUnary(advance(p)), LAMBDA right :
             IF right.p.thrown THEN right
             ELSE parsePowerLeftLoop(right.p, makeBinary("^", expr, right.node)))
    ELSE [p |-> p, node |-> expr]

parsePower_leftAssociative(p) ==
    Bind(parseUnary(p), LAMBDA expr :
        IF expr.p.thrown THEN expr ELSE parsePowerLeftLoop(expr.p, expr.node))

parsePower(p) ==
    Bind(parseUnary(p), LAMBDA expr :
        IF expr.p.thrown THEN expr
        ELSE IF check(expr.p, "Caret")
        THEN Bind(parsePower(advance(expr.p)), LAMBDA right :
                 IF right.p.thrown THEN right
                 ELSE [p |-> right.p, node |-> makeBinary("^", expr.node, right.node)])
        ELSE expr)

\* The operator of a binary level that the parser is at, "" when it is at none of them.
FactorOp(p) ==
    CASE check(p, "Star") -> "*"
      [] check(p, "Slash") -> "/"
      [] check(p, "Percent") -> "%"
      [] OTHER -> ""

\* The loop of parseFactor with a whole term taken as the right operand.
parseFactorLoop_looseRight(p, expr) ==
    IF FactorOp(p) = "" THEN [p |-> p, node |-> expr]
    ELSE Bind(parseTerm(advance(p)), LAMBDA right :
             IF right.p.thrown THEN right
             ELSE parseFactorLoop(right.p, makeBinary(FactorOp(p), expr, right.node)))

\* The loop of parseFactor: expr is the expression built so far.
parseFactorLoop(p, expr) ==
    IF FactorOp(p) = "" THEN [p |-> p, node |-> expr]
    ELSE Bind(parsePower(advance(p)), LAMBDA right :
             IF right.p.thrown THEN right
             ELSE parseFactorLoop(right.p, makeBinary(FactorOp(p), expr, right.node)))

parseFactor(p) ==
    Bind(parsePower(p), LAMBDA expr :
        IF expr.p.thrown THEN expr ELSE parseFactorLoop(expr.p, expr.node))

TermOp(p) ==
    CASE check(p, "Plus") -> "+"
      [] check(p, "Minus") -> "-"
      [] OTHER -> ""

\* The loop of parseTerm.
parseTermLoop(p, expr) ==
    IF TermOp(p) = "" THEN [p |-> p, node |-> expr]
    ELSE Bind(parseFactor(advance(p)), LAMBDA right :
             IF right.p.thrown THEN right
             ELSE parseTermLoop(right.p, makeBinary(TermOp(p), expr, right.node)))

parseTerm(p) ==
    Bind(parseFactor(p), LAMBDA expr :
        IF expr.p.thrown THEN expr ELSE parseTermLoop(expr.p, expr.node))

ComparisonOp(p) ==
    CASE check(p, "Less") -> "<"
      [] check(p, "LessEqual") -> "<="
      [] check(p, "Greater") -> ">"
      [] check(p, "GreaterEqual") -> ">="
      [] OTHER -> ""

\* The loop of parseComparison.
parseComparisonLoop(p, expr) ==
    IF ComparisonOp(p) = "" THEN [p |-> p, node |-> expr]
    ELSE Bind(parseTerm(advance(p)), LAMBDA right :
             IF right.p.thrown THEN right
             ELSE parseComparisonLoop(right.p,
                                      makeBinary(ComparisonOp(p), expr, right.node)))

parseComparison(p) ==
    Bind(parseTerm(p), LAMBDA expr :
        IF expr.p.thrown THEN expr ELSE parseComparisonLoop(expr.p, expr.node))

\* The loop of parseEquality.
parseEqualityLoop(p, expr) ==
    IF check(p, "Equal")
    THEN Bind(parseComparison(advance(p)), LAMBDA right :
             IF right.p.thrown THEN right
             ELSE parseEqualityLoop(right.p, makeBinary("==", expr, right.node)))
    ELSE [p |-> p, node |-> expr]

parseEquality(p) ==
    Bind(parseComparison(p), LAMBDA expr :
        IF expr.p.thrown THEN expr ELSE parseEqualityLoop(expr.p, expr.node))

\* The loop of parseAnd.
parseAndLoop(p, expr) ==
    IF check(p, "KeywordAnd")
    THEN Bind(parseEquality(advance(p)), LAMBDA right :
             IF right.p.thrown THEN right
             ELSE parseAndLoop(right.p, makeBinary("&&", expr, right.node)))
    ELSE [p |-> p, node |-> expr]

parseAnd(p) ==
    Bind(parseEquality(p), LAMBDA expr :
        IF expr.p.thrown THEN expr ELSE parseAndLoop(expr.p, expr.node))

\* The loop of parseOr.
parseOrLoop(p, expr) ==
    IF check(p, "KeywordOr")
    THEN Bind(parseAnd(advance(p)), LAMBDA right :
             IF right.p.thrown THEN right
             ELSE parseOrLoop(right.p, makeBinary("||", expr, right.node)))
    ELSE [p |-> p, node |-> expr]

parseOr(p) ==
    Bind(parseAnd(p), LAMBDA expr :
        IF expr.p.thrown THEN expr ELSE parseOrLoop(expr.p, expr.node))

parseExpression(p) == parseOr(p)

parseParenthesizedCondition(p, context) ==
    Bind(consume(p, "LeftParen", "Ozhidaetsya '(' posle " \o context), LAMBDA open :
        IF open.thrown THEN Failed(open)
        ELSE Bind(parseExpression(open), LAMBDA condition :
                 IF condition.p.thrown THEN condition
                 ELSE [p |-> consume(condition.p, "RightParen",
                                     "Ozhidaetsya ')' posle usloviya " \o context),
                       node |-> condition.node]))

\* The ValueType that parseVarDecl reads off the type keyword.
DeclaredType(typeToken) ==
    CASE typeToken.type = "KeywordInteger" -> "Integer"
      [] typeToken.type = "KeywordDouble" -> "Double"
      [] typeToken.type = "KeywordString" -> "String"
      [] typeToken.type = "KeywordLogic" -> "Boolean"
      [] OTHER -> "Unknown"

parseVarDecl(p) ==
    Bind(consume(advance(p), "Identifier", "Ozhidaetsya imya peremennoj"), LAMBDA named :
        IF named.thrown THEN Failed(named)
        ELSE Bind(IF check(named, "Assign") THEN parseExpression(advance(named))
                  ELSE [p |-> named, node |-> NullExpr],
                  LAMBDA initializer :
                 IF initializer.p.thrown THEN initializer
                 ELSE [p |-> expectNewline(initializer.p, "obyavleniya peremennoj"),
                       node |-> makeVarDecl(DeclaredType(peek(p)), previous(named).lexeme,
                                            initializer.node)]))

parseAssignment(p) ==
    Bind(consume(advance(p), "Assign", "Ozhidaetsya '=' v prisvaivanii"), LAMBDA assign :
        IF assign.thrown THEN Failed(assign)
        ELSE Bind(parseExpression(assign), LAMBDA value :
                 IF value.p.thrown THEN value
                 ELSE [p |-> expectNewline(value.p, "prisvaivaniya"),
                       node |-> makeAssign(peek(p).lexeme, value.node)]))

\* parseInput that takes a second identifier if there is one.
parseInput_twoTargets(p) ==
    Bind(consume(advance(p), "Identifier", "Ozhidaetsya peremennaya dlya vvoda"),
         LAMBDA named :
        IF named.thrown THEN Failed(named)
        ELSE [p |-> expectNewline(match(named, "Identifier"), "operatora vvoda"),
              node |-> makeInput(previous(named).lexeme)])

parseInput(p) ==
    Bind(consume(advance(p), "Identifier", "Ozhidaetsya peremennaya dlya vvoda"),
         LAMBDA named :
        IF named.thrown THEN Failed(named)
        ELSE [p |-> expectNewline(named, "operatora vvoda"),
              node |-> makeInput(previous(named).lexeme)])

parseOutput(p) ==
    Bind(parseExpression(advance(p)), LAMBDA value :
        IF value.p.thrown THEN value
        ELSE [p |-> expectNewline(value.p, "operatora vyvoda"),
              node |-> makeOutput(value.node)])

RECURSIVE parseStatement(_), parseIndentedBlock(_, _), parseBlockLoop(_, _),
          parseIf(_), parseElseLoop(_, _), parseWhile(_), parseFor(_)

\* The loop of parseIndentedBlock.
parseBlockLoop(p, body) ==
    IF ~check(p, "Dedent") /\ ~isAtEnd(p)
    THEN Bind(parseStatement(p), LAMBDA stmt :
             IF stmt.p.thrown THEN [p |-> stmt.p, body |-> body]
             ELSE Bind(skipNewlines(stmt.p), LAMBDA next :
                      parseBlockLoop(next, Append(body, stmt.node))))
    ELSE [p |-> p, body |-> body]

\* parseIndentedBlock that takes the indent if there is one.
parseIndentedBlock_anyIndent(p, context) ==
    Bind(consume(p, "Newline", "Ozhidaetsya novaya stroka posle " \o context), LAMBDA line :
        IF line.thrown THEN [p |-> line, body |-> <<>>]
        ELSE
        Bind(parseBlockLoop(skipNewlines(match(line, "Indent")), <<>>), LAMBDA block :
            IF block.p.thrown THEN block
            ELSE [p |-> consume(block.p, "Dedent",
                                "Ozhidaetsya zavershenie bloka " \o context),
                  body |-> block.body]))

\* parseIndentedBlock that passes over every NEWLINE before the indent.
parseIndentedBlock_skipsNewlines(p, context) ==
    Bind(consume(p, "Newline", "Ozhidaetsya novaya stroka posle " \o context), LAMBDA line :
        IF line.thrown THEN [p |-> line, body |-> <<>>]
        ELSE
        Bind(consume(skipNewlines(line), "Indent", "Ozhidaetsya otstup posle " \o context),
             LAMBDA indented :
            IF indented.thrown THEN [p |-> indented, body |-> <<>>]
            ELSE
            Bind(parseBlockLoop(skipNewlines(indented), <<>>), LAMBDA block :
                IF block.p.thrown THEN block
                ELSE [p |-> consume(block.p, "Dedent",
                                    "Ozhidaetsya zavershenie bloka " \o context),
                      body |-> block.body])))

parseIndentedBlock(p, context) ==
    Bind(consume(p, "Newline", "Ozhidaetsya novaya stroka posle " \o context), LAMBDA line :
        IF line.thrown THEN [p |-> line, body |-> <<>>]
        ELSE
        Bind(consume(line, "Indent", "Ozhidaetsya otstup posle " \o context),
             LAMBDA indented :
            IF indented.thrown THEN [p |-> indented, body |-> <<>>]
            ELSE
            Bind(parseBlockLoop(skipNewlines(indented), <<>>), LAMBDA block :
                IF block.p.thrown THEN block
                ELSE [p |-> consume(block.p, "Dedent",
                                    "Ozhidaetsya zavershenie bloka " \o context),
                      body |-> block.body])))

\* The loop of parseIf that goes on after the `inache` body.
parseElseLoop_goesOn(p, ifStmt) ==
    IF check(p, "KeywordElse")
    THEN IF check(advance(p), "KeywordIf")
         THEN Bind(parseParenthesizedCondition(advance(advance(p)), "inache esli"),
                   LAMBDA elseIfCond :
                  IF elseIfCond.p.thrown THEN Failed(elseIfCond.p)
                  ELSE
                  Bind(parseIndentedBlock(elseIfCond.p, "usloviya 'inache esli'"),
                       LAMBDA elseIfBody :
                      IF elseIfBody.p.thrown THEN Failed(elseIfBody.p)
                      ELSE parseElseLoop(
                               elseIfBody.p,
                               [ifStmt EXCEPT !.branches =
                                   Append(@, IfBranch(elseIfCond.node, elseIfBody.body))])))
         ELSE Bind(parseIndentedBlock(advance(p), "bloka 'inache'"), LAMBDA elseBody :
                  IF elseBody.p.thrown THEN Failed(elseBody.p)
                  ELSE parseElseLoop(elseBody.p,
                                     [ifStmt EXCEPT !.elseBranch = elseBody.body,
                                                    !.hasElse = TRUE]))
    ELSE [p |-> p, node |-> ifStmt]

\* The loop of parseIf over `inache`: ifStmt is the If built so far.
parseElseLoop(p, ifStmt) ==
    IF check(p, "KeywordElse")
    THEN IF check(advance(p), "KeywordIf")
         THEN Bind(parseParenthesizedCondition(advance(advance(p)), "inache esli"),
                   LAMBDA elseIfCond :
                  IF elseIfCond.p.thrown THEN Failed(elseIfCond.p)
                  ELSE
                  Bind(parseIndentedBlock(elseIfCond.p, "usloviya 'inache esli'"),
                       LAMBDA elseIfBody :
                      IF elseIfBody.p.thrown THEN Failed(elseIfBody.p)
                      ELSE parseElseLoop(
                               elseIfBody.p,
                               [ifStmt EXCEPT !.branches =
                                   Append(@, IfBranch(elseIfCond.node, elseIfBody.body))])))
         ELSE Bind(parseIndentedBlock(advance(p), "bloka 'inache'"), LAMBDA elseBody :
                  IF elseBody.p.thrown THEN Failed(elseBody.p)
                  ELSE [p |-> elseBody.p,
                        node |-> [ifStmt EXCEPT !.elseBranch = elseBody.body,
                                                !.hasElse = TRUE]])
    ELSE [p |-> p, node |-> ifStmt]

parseIf(p) ==
    Bind(parseParenthesizedCondition(advance(p), "esli"), LAMBDA condition :
        IF condition.p.thrown THEN Failed(condition.p)
        ELSE Bind(parseIndentedBlock(condition.p, "usloviya 'esli'"), LAMBDA ifBody :
                 IF ifBody.p.thrown THEN Failed(ifBody.p)
                 ELSE Bind(makeIf(<<IfBranch(condition.node, ifBody.body)>>, <<>>, FALSE),
                           LAMBDA ifStmt : parseElseLoop(ifBody.p, ifStmt))))

parseWhile(p) ==
    Bind(parseParenthesizedCondition(advance(p), "poka"), LAMBDA condition :
        IF condition.p.thrown THEN Failed(condition.p)
        ELSE Bind(parseIndentedBlock(condition.p, "cikla 'poka'"), LAMBDA body :
                 IF body.p.thrown THEN Failed(body.p)
                 ELSE [p |-> body.p, node |-> makeWhile(condition.node, body.body)]))

\* parseFor from its first parseExpression on: named is the parser after the counter's name.
parseForRange(named, type) ==
    Bind(consume(named, "KeywordFrom", "Ozhidaetsya slovo 'ot' v cikle"), LAMBDA fromWord :
        IF fromWord.thrown THEN Failed(fromWord)
        ELSE
        Bind(parseExpression(fromWord), LAMBDA from :
            IF from.p.thrown THEN from
            ELSE
            Bind(consume(from.p, "KeywordTo", "Ozhidaetsya slovo 'do' v cikle"),
                 LAMBDA toWord :
                IF toWord.thrown THEN Failed(toWord)
                ELSE
                Bind(parseExpression(toWord), LAMBDA to :
                    IF to.p.thrown THEN to
                    ELSE
                    Bind(consume(to.p, "RightParen", "Ozhidaetsya ')' posle zagolovka cikla"),
                         LAMBDA close :
                        IF close.thrown THEN Failed(close)
                        ELSE
                        Bind(parseIndentedBlock(close, "cikla 'dlya'"), LAMBDA body :
                            IF body.p.thrown THEN Failed(body.p)
                            ELSE [p |-> body.p,
                                  node |-> makeFor(type, previous(named).lexeme,
                                                   from.node, to.node, body.body)]))))))

parseFor(p) ==
    Bind(consume(advance(p), "LeftParen", "Ozhidaetsya '(' posle 'dlya'"), LAMBDA open :
        IF open.thrown THEN Failed(open)
        ELSE
        Bind(parseTypeKeyword(open, "cikla 'dlya'"), LAMBDA type :
            IF type.p.thrown THEN Failed(type.p)
            ELSE
            Bind(consume(type.p, "Identifier", "Ozhidaetsya imya schyotchika"),
                 LAMBDA named :
                IF named.thrown THEN Failed(named) ELSE parseForRange(named, type.type))))

parseStatement(p) ==
    IF check(p, "Indent") THEN Failed(ParserThrow(p, "Neozhidannyj otstup"))
    ELSE IF isTypeKeyword(peek(p).type) THEN parseVarDecl(p)
    ELSE CASE peek(p).type = "KeywordInput"  -> parseInput(p)
           [] peek(p).type = "KeywordOutput" -> parseOutput(p)
           [] peek(p).type = "KeywordIf"     -> parseIf(p)
           [] peek(p).type = "KeywordWhile"  -> parseWhile(p)
           [] peek(p).type = "KeywordFor"    -> parseFor(p)
           [] peek(p).type = "Identifier"    -> parseAssignment(p)
           [] OTHER -> Failed(ParserThrow(p, "Neozhidannoe slovo '" \o peek(p).lexeme \o "'"))

\* The loop of parseProgram.
RECURSIVE parseProgramLoop(_, _)
parseProgramLoop(p, statements) ==
    IF ~isAtEnd(p)
    THEN Bind(parseStatement(p), LAMBDA stmt :
             IF stmt.p.thrown THEN [p |-> stmt.p, statements |-> statements]
             ELSE Bind(skipNewlines(stmt.p), LAMBDA next :
                      parseProgramLoop(next, Append(statements, stmt.node))))
    ELSE [p |-> p, statements |-> statements]

parseProgram(p) ==
    Bind(skipNewlines(p), LAMBDA first : parseProgramLoop(first, <<>>))

(***************************************************************************)
(* codegen.cpp: the NameMangler.  `history` is not a member of the class:  *)
(* it records the calls of pushScope, popScope and declare, in order.      *)
(***************************************************************************)
EmptyScope == [original \in {} |-> ""]

NewMangler == [counter_ |-> 0, scopes_ |-> <<EmptyScope>>, history |-> <<>>]

\* pushScope that opens no scope.
pushScope_none(m) == [m EXCEPT !.history = Append(@, [op |-> "push"])]

pushScope(m) ==
    [m EXCEPT !.scopes_ = Append(@, EmptyScope),
              !.history = Append(@, [op |-> "push"])]

\* popScope that pops nothing.
popScope_kept(m) == [m EXCEPT !.history = Append(@, [op |-> "pop"])]

popScope(m) ==
    [m EXCEPT !.scopes_ = IF Len(@) > 1 THEN PopBack(@) ELSE @,
              !.history = Append(@, [op |-> "pop"])]

\* The name declare gives: "vr_" + std::to_string(++counter_).
Renamed(counter) == "vr_" \o ToString(counter)

\* declare that numbers the names of each scope from 1.
declare_perScope(m, original) ==
    LET renamed == Renamed(Cardinality(DOMAIN Back(m.scopes_)) + 1)
        scope   == Back(m.scopes_)
    IN  [m EXCEPT !.counter_ = @ + 1,
                  !.scopes_[Len(m.scopes_)] =
                      [v \in DOMAIN scope \cup {original} |->
                          IF v = original THEN renamed ELSE scope[v]],
                  !.history = Append(@, [op |-> "declare", original |-> original,
                                         renamed |-> renamed])]

\* The mangler after declare(original).
declare(m, original) ==
    LET renamed == Renamed(m.counter_ + 1)
        scope   == Back(m.scopes_)
    IN  [m EXCEPT !.counter_ = @ + 1,
                  !.scopes_[Len(m.scopes_)] =
                      [v \in DOMAIN scope \cup {original} |->
                          IF v = original THEN renamed ELSE scope[v]],
                  !.history = Append(@, [op |-> "declare", original |-> original,
                                         renamed |-> renamed])]

\* What declare(original) returned, m being the mangler after it.
declaredAs(m, original) == Back(m.scopes_)[original]

\* resolve that walks the scopes from the outermost inward.
RECURSIVE resolveFromOuter(_, _, _)
resolveFromOuter(scopes, k, original) ==
    IF k > Len(scopes) THEN original
    ELSE IF original \in DOMAIN scopes[k] THEN scopes[k][original]
    ELSE resolveFromOuter(scopes, k + 1, original)

resolve_outermostFirst(m, original) == resolveFromOuter(m.scopes_, 1, original)

\* The loop of resolve, from scope k down to the first.
RECURSIVE resolveFrom(_, _, _)
resolveFrom(scopes, k, original) ==
    IF k = 0 THEN original
    ELSE IF original \in DOMAIN scopes[k] THEN scopes[k][original]
    ELSE resolveFrom(scopes, k - 1, original)

\* resolve that spells an undeclared identifier as no declared name is spelled.
resolve_freeKeptApart(m, original) ==
    IF \E s \in 1..Len(m.scopes_) : original \in DOMAIN m.scopes_[s]
    THEN resolveFrom(m.scopes_, Len(m.scopes_), original)
    ELSE "id_" \o original

resolve(m, original) == resolveFrom(m.scopes_, Len(m.scopes_), original)

(***************************************************************************)
(* codegen.cpp: the emitters.                                              *)
(***************************************************************************)
RECURSIVE indent(_)
indent(level) == IF level = 0 THEN "" ELSE "    " \o indent(level - 1)

cppType(type) ==
    CASE type = "Integer" -> "int"
      [] type = "Double"  -> "double"
      [] type = "String"  -> "std::string"
      [] type = "Boolean" -> "bool"
      [] OTHER -> "auto"

RECURSIVE escapeString(_)
escapeString(value) ==
    IF value = "" THEN ""
    ELSE LET ch == Head(value)
             escaped == CASE ch = "\\" -> "\\\\"
                          [] ch = "\"" -> "\\\""
                          [] ch = "\n" -> "\\n"
                          [] ch = "\t" -> "\\t"
                          [] OTHER -> ch
         IN  escaped \o escapeString(Tail(value))

RECURSIVE emitExpression(_, _)
emitExpression(expr, mangler) ==
    CASE expr.kind = "Null" -> "0"
      [] expr.kind = "Literal" ->
             (CASE expr.type \in {"Integer", "Double"} -> expr.text
                [] expr.type = "String" -> "\"" \o escapeString(expr.text) \o "\""
                [] expr.type = "Boolean" -> IF expr.boolValue THEN "true" ELSE "false"
                [] OTHER -> expr.text)
      [] expr.kind = "Variable" -> resolve(mangler, expr.name)
      [] expr.kind = "Unary" ->
             expr.op \o "(" \o emitExpression(expr.operand, mangler) \o ")"
      [] expr.kind = "Binary" ->
             IF expr.op = "^"
             THEN "std::pow(" \o emitExpression(expr.left, mangler) \o ", "
                      \o emitExpression(expr.right, mangler) \o ")"
             ELSE "(" \o emitExpression(expr.left, mangler) \o " " \o expr.op \o " "
                      \o emitExpression(expr.right, mangler) \o ")"

(***************************************************************************)
(* generate, emitStatements and emitStatement.  The recursion of the       *)
(* emitters is unfolded: `work` is what is left to do, the next thing      *)
(* first.                                                                  *)
(***************************************************************************)
EmitStatements(statements, indentLevel, createNewScope) ==
    [op |-> "emitStatements", statements |-> statements, indentLevel |-> indentLevel,
     createNewScope |-> createNewScope]

EndStatements(createNewScope) == [op |-> "endStatements", createNewScope |-> createNewScope]

EmitStatement(statement, indentLevel) ==
    [op |-> "emitStatement", statement |-> statement, indentLevel |-> indentLevel]

\* The head of one branch of an If: `if (` or `else if (`, its condition, `) {`.
EmitBranchHead(keyword, condition, indentLevel) ==
    [op |-> "branchHead", keyword |-> keyword, condition |-> condition,
     indentLevel |-> indentLevel]

EmitText(text) == [op |-> "text", text |-> text]

PopScope == [op |-> "popScope"]

Preamble ==
    "#include <cmath>\n" \o "#include <iostream>\n" \o "#include <string>\n\n"
        \o "int main() {\n" \o indent(1) \o "std::ios_base::sync_with_stdio(false);\n"

\* A generate whose mangler outlives the call: the next call goes on with the counter
\* and the scopes the last one left.
NewGen_sharedMangler(program) ==
    [mangler |-> gen.mangler,
     out     |-> Preamble,
     work    |-> <<EmitStatements(program.statements, 1, FALSE),
                   EmitText(indent(1) \o "return 0;\n" \o "}\n")>>]

\* generate, up to its call of emitStatements.
NewGen(program) ==
    [mangler |-> NewMangler,
     out     |-> Preamble,
     work    |-> <<EmitStatements(program.statements, 1, FALSE),
                   EmitText(indent(1) \o "return 0;\n" \o "}\n")>>]

\* What is left to do for the branches of an If from branch i on.
RECURSIVE BranchWork(_, _, _)
BranchWork(ifStmt, i, indentLevel) ==
    IF i <= Len(ifStmt.branches)
    THEN <<EmitBranchHead(IF i = 1 THEN "if" ELSE "else if",
                          ifStmt.branches[i].condition, indentLevel),
           EmitStatements(ifStmt.branches[i].body, indentLevel + 1, TRUE),
           EmitText(indent(indentLevel) \o "}\n")>>
             \o BranchWork(ifStmt, i + 1, indentLevel)
    ELSE IF ifStmt.hasElse
    THEN <<EmitText(indent(indentLevel) \o "else {\n"),
           EmitStatements(ifStmt.elseBranch, indentLevel + 1, TRUE),
           EmitText(indent(indentLevel) \o "}\n")>>
    ELSE <<>>

\* emitStatement that writes the expressions of a declaration before it registers the
\* declared name.
emitStatement_declaresLast(g, statement, indentLevel) ==
    CASE statement.kind = "VarDecl" ->
             LET m == declare(g.mangler, statement.name)
                 cppName == declaredAs(m, statement.name)
             IN  [g EXCEPT !.mangler = m,
                           !.out = @ \o indent(indentLevel) \o cppType(statement.type)
                                     \o " " \o cppName
                                     \o (IF statement.initializer.kind # "Null"
                                         THEN " = " \o emitExpression(statement.initializer, g.mangler)
                                         ELSE "{}")
                                     \o ";\n"]
      [] statement.kind = "Assign" ->
             [g EXCEPT !.out = @ \o indent(indentLevel) \o resolve(g.mangler, statement.name)
                                 \o " = " \o emitExpression(statement.value, g.mangler)
                                 \o ";\n"]
      [] statement.kind = "Input" ->
             [g EXCEPT !.out = @ \o indent(indentLevel) \o "std::cin >> "
                                 \o resolve(g.mangler, statement.name) \o ";\n"]
      [] statement.kind = "Output" ->
             [g EXCEPT !.out = @ \o indent(indentLevel) \o "std::cout << "
                                 \o emitExpression(statement.value, g.mangler)
                                 \o " << std::endl;\n"]
      [] statement.kind = "If" ->
             [g EXCEPT !.work = BranchWork(statement, 1, indentLevel) \o @]
      [] statement.kind = "While" ->
             [g EXCEPT !.out = @ \o indent(indentLevel) \o "while ("
                                 \o emitExpression(statement.condition, g.mangler)
                                 \o ") {\n",
                       !.work = <<EmitStatements(statement.body, indentLevel + 1, TRUE),
                                  EmitText(indent(indentLevel) \o "}\n")>> \o @]
      [] statement.kind = "ForRange" ->
             LET m == declare(pushScope(g.mangler), statement.name)
                 loopName == declaredAs(m, statement.name)
             IN  [g EXCEPT !.mangler = m,
                           !.out = @ \o indent(indentLevel) \o "for ("
                                     \o cppType(statement.type) \o " " \o loopName \o " = "
                                     \o emitExpression(statement.from, g.mangler) \o "; "
                                     \o loopName \o " <= "
                                     \o emitExpression(statement.to, g.mangler) \o "; ++"
                                     \o loopName \o ") {\n",
                           !.work = <<EmitStatements(statement.body, indentLevel + 1, TRUE),
                                      EmitText(indent(indentLevel) \o "}\n"),
                                      PopScope>> \o @]

\* emitStatement, up to its first call of emitStatements; g.work is what follows it.
emitStatement(g, statement, indentLevel) ==
    CASE statement.kind = "VarDecl" ->
             LET m == declare(g.mangler, statement.name)
                 cppName == declaredAs(m, statement.name)
             IN  [g EXCEPT !.mangler = m,
                           !.out = @ \o indent(indentLevel) \o cppType(statement.type)
                                     \o " " \o cppName
                                     \o (IF statement.initializer.kind # "Null"
                                         THEN " = " \o emitExpression(statement.initializer, m)
                                         ELSE "{}")
                                     \o ";\n"]
      [] statement.kind = "Assign" ->
             [g EXCEPT !.out = @ \o indent(indentLevel) \o resolve(g.mangler, statement.name)
                                 \o " = " \o emitExpression(statement.value, g.mangler)
                                 \o ";\n"]
      [] statement.kind = "Input" ->
             [g EXCEPT !.out = @ \o indent(indentLevel) \o "std::cin >> "
                                 \o resolve(g.mangler, statement.name) \o ";\n"]
      [] statement.kind = "Output" ->
             [g EXCEPT !.out = @ \o indent(indentLevel) \o "std::cout << "
                                 \o emitExpression(statement.value, g.mangler)
                                 \o " << std::endl;\n"]
      [] statement.kind = "If" ->
             [g EXCEPT !.work = BranchWork(statement, 1, indentLevel) \o @]
      [] statement.kind = "While" ->
             [g EXCEPT !.out = @ \o indent(indentLevel) \o "while ("
                                 \o emitExpression(statement.condition, g.mangler)
                                 \o ") {\n",
                       !.work = <<EmitStatements(statement.body, indentLevel + 1, TRUE),
                                  EmitText(indent(indentLevel) \o "}\n")>> \o @]
      [] statement.kind = "ForRange" ->
             LET m == declare(pushScope(g.mangler), statement.name)
                 loopName == declaredAs(m, statement.name)
             IN  [g EXCEPT !.mangler = m,
                           !.out = @ \o indent(indentLevel) \o "for ("
                                     \o cppType(statement.type) \o " " \o loopName \o " = "
                                     \o emitExpression(statement.from, m) \o "; "
                                     \o loopName \o " <= "
                                     \o emitExpression(statement.to, m) \o "; ++"
                                     \o loopName \o ") {\n",
                           !.work = <<EmitStatements(statement.body, indentLevel + 1, TRUE),
                                      EmitText(indent(indentLevel) \o "}\n"),
                                      PopScope>> \o @]

\* One step of generate: the first thing left to do.
genPass(g) ==
    LET item == Head(g.work)
        rest == [g EXCEPT !.work = Tail(@)]
    IN  CASE item.op = "emitStatements" ->
                 [rest EXCEPT !.mangler = IF item.createNewScope THEN pushScope(@) ELSE @,
                              !.work = [k \in 1..Len(item.statements) |->
                                           EmitStatement(item.statements[k], item.indentLevel)]
                                       \o <<EndStatements(item.createNewScope)>> \o @]
          [] item.op = "endStatements" ->
                 [rest EXCEPT !.mangler = IF item.createNewScope THEN popScope(@) ELSE @]
          [] item.op = "emitStatement" ->
                 emitStatement(rest, item.statement, item.indentLevel)
          [] item.op = "branchHead" ->
                 [rest EXCEPT !.out = @ \o indent(item.indentLevel) \o item.keyword \o " ("
                                        \o emitExpression(item.condition, g.mangler)
                                        \o ") {\n"]
          [] item.op = "text" -> [rest EXCEPT !.out = @ \o item.text]
          [] item.op = "popScope" -> [rest EXCEPT !.mangler = popScope(@)]

\* generate, run to its end.
RECURSIVE generateFrom(_)
generateFrom(g) ==
    IF g.work = <<>> THEN g ELSE Bind(genPass(g), LAMBDA next : generateFrom(next))

generate(program) == generateFrom(NewGen(program))

NoParser == NewParser(<<>>)

NoParse == [kind |-> "none", program |-> [statements |-> <<>>], what |-> ""]

NoGen == [mangler |-> NewMangler, out |-> "", work |-> <<>>]

NoText == [kind |-> "none", text |-> ""]

\* translateAndRun before compileAndRun has written or run anything.
NoApp == [written |-> <<>>, commands |-> <<>>, cerr |-> <<>>, returned |-> "none"]

NoRun == [state |-> "none", lines |-> <<>>, pc |-> 0, blocks |-> <<>>, printed |-> <<>>]

(***************************************************************************)
(* The generated program as g++ and the machine take it: compileAndRun     *)
(* hands the text to the compiler and runs the binary.  The text is read   *)
(* line by line, as the emitters write it: includes, main, declarations of *)
(* int, assignments, while, std::cout, with expressions in parentheses as  *)
(* emitExpression writes them.  Any other line does not compile here.      *)
(***************************************************************************)
\* The positions of the line ends of a text.
LineEnds(text) == {at \in 1..Len(text) : SubSeq(text, at, at) = "\n"}

\* The k-th line end.
LineEnd(text, k) ==
    CHOOSE at \in LineEnds(text) : Cardinality({b \in LineEnds(text) : b < at}) = k - 1

\* The k-th line, without its line end.
LineOf(text, k) ==
    SubSeq(text, IF k = 1 THEN 1 ELSE LineEnd(text, k - 1) + 1, LineEnd(text, k) - 1)

Punctuation == {"(", ")", ";", "{", "}"}

\* The words of a line: runs of characters other than spaces, punctuation apart.
RECURSIVE WordsFrom(_, _, _)
WordsFrom(line, at, word) ==
    LET flush == IF word = "" THEN <<>> ELSE <<word>>
        ch == SubSeq(line, at, at)
    IN  IF at > Len(line) THEN flush
        ELSE IF ch = " " THEN flush \o WordsFrom(line, at + 1, "")
        ELSE IF ch \in Punctuation THEN flush \o <<ch>> \o WordsFrom(line, at + 1, "")
        ELSE WordsFrom(line, at + 1, word \o ch)

\* The program: its lines, each as its words.
ProgramOf(text) ==
    [k \in 1..Cardinality(LineEnds(text)) |-> WordsFrom(LineOf(text, k), 1, "")]

IsNumber(word) == word # "" /\ \A at \in 1..Len(word) : SubSeq(word, at, at) \in Digits

IsName(word) ==
    /\ word # ""
    /\ SubSeq(word, 1, 1) \in Letters \cup {"_"}
    /\ \A at \in 1..Len(word) : SubSeq(word, at, at) \in Letters \cup Digits \cup {"_"}
    /\ word \notin {"int", "while", "return", "true", "false"}

RECURSIVE NumberOf(_)
NumberOf(word) ==
    IF word = "" THEN 0
    ELSE NumberOf(SubSeq(word, 1, Len(word) - 1)) * 10
             + (CHOOSE digit \in 0..9 : ToString(digit) = SubSeq(word, Len(word), Len(word)))

BinaryOperators == {"+", "-", "*", "<", "<=", ">", ">=", "==", "&&", "||"}

NotAnExpression == [ok |-> FALSE, node |-> [kind |-> "none"], next |-> 0]

\* The expression that begins at a word: a number, a name, or ( left op right ).
RECURSIVE ReadExpression(_, _)
ReadExpression(words, at) ==
    IF at > Len(words) THEN NotAnExpression
    ELSE IF words[at] = "("
    THEN Bind(ReadExpression(words, at + 1), LAMBDA left :
             IF ~left.ok \/ left.next > Len(words) THEN NotAnExpression
             ELSE IF words[left.next] \notin BinaryOperators THEN NotAnExpression
             ELSE Bind(ReadExpression(words, left.next + 1), LAMBDA right :
                      IF ~right.ok \/ right.next > Len(words) THEN NotAnExpression
                      ELSE IF words[right.next] # ")" THEN NotAnExpression
                      ELSE [ok |-> TRUE,
                            node |-> [kind |-> "binary", op |-> words[left.next],
                                      left |-> left.node, right |-> right.node],
                            next |-> right.next + 1]))
    ELSE IF IsNumber(words[at])
    THEN [ok |-> TRUE, node |-> [kind |-> "number", value |-> NumberOf(words[at])],
          next |-> at + 1]
    ELSE IF IsName(words[at])
    THEN [ok |-> TRUE, node |-> [kind |-> "name", name |-> words[at]], next |-> at + 1]
    ELSE NotAnExpression

\* The words as one whole expression.
ExpressionOf(words) ==
    Bind(ReadExpression(words, 1), LAMBDA read :
        IF read.ok /\ read.next = Len(words) + 1 THEN read ELSE NotAnExpression)

RECURSIVE NamesIn(_)
NamesIn(node) ==
    CASE node.kind = "name" -> {node.name}
      [] node.kind = "binary" -> NamesIn(node.left) \cup NamesIn(node.right)
      [] OTHER -> {}

\* What a line is, and the expression in it.
Statement(words) ==
    LET n == Len(words)
        As(shape, name, expression) ==
            [shape |-> shape, name |-> name, expression |-> expression]
        plain == [ok |-> TRUE, node |-> [kind |-> "none"], next |-> 0]
    IN  CASE n = 0 -> As("skip", "", plain)
          [] n > 0 /\ words[1] \in {"#include", "std::ios_base::sync_with_stdio"} ->
                 As("skip", "", plain)
          [] words = <<"int", "main", "(", ")", "{">> -> As("main", "", plain)
          [] words = <<"}">> -> As("close", "", plain)
          [] words = <<"return", "0", ";">> -> As("return", "", plain)
          [] n >= 5 /\ words[1] = "int" /\ words[3] = "=" /\ words[n] = ";" ->
                 As("declare", words[2], ExpressionOf(SubSeq(words, 4, n - 1)))
          [] n >= 5 /\ words[1] = "while" /\ words[2] = "(" /\ words[n - 1] = ")"
                 /\ words[n] = "{" ->
                 As("while", "", ExpressionOf(SubSeq(words, 3, n - 2)))
          [] n >= 14 /\ SubSeq(words, 1, 3) = <<"for", "(", "int">> /\ words[5] = "="
                 /\ Cardinality({k \in 1..n : words[k] = ";"}) = 2 ->
                 LET first == CHOOSE k \in 1..n :
                                  words[k] = ";" /\ \E l \in (k + 1)..n : words[l] = ";"
                     second == CHOOSE k \in (first + 1)..n : words[k] = ";"
                 IN  IF /\ second + 3 = n
                        /\ second >= first + 4
                        /\ words[first + 1] = words[4]
                        /\ words[first + 2] = "<="
                        /\ SubSeq(words, second + 1, n) = <<"++" \o words[4], ")", "{">>
                     THEN [shape |-> "for", name |-> words[4],
                           expression |-> ExpressionOf(SubSeq(words, 6, first - 1)),
                           limit |-> ExpressionOf(SubSeq(words, first + 3, second - 1))]
                     ELSE As("other", "", NotAnExpression)
          [] n >= 6 /\ words[1] = "std::cout" /\ words[2] = "<<" /\ words[n - 2] = "<<"
                 /\ words[n - 1] = "std::endl" /\ words[n] = ";" ->
                 As("print", "", ExpressionOf(SubSeq(words, 3, n - 3)))
          [] n >= 4 /\ words[2] = "=" /\ words[n] = ";" ->
                 As("assign", words[1], ExpressionOf(SubSeq(words, 3, n - 1)))
          [] OTHER -> As("other", "", NotAnExpression)

\* Marks, among the names of a for statement's own scope, that the block after it is
\* the loop's body.
ForBody == "for ("

\* g++: every line is one the reader knows, every name is declared in an open block
\* and not twice in one block, every block is closed.
RECURSIVE CompilesFrom(_, _, _)
CompilesFrom(lines, k, scopes) ==
    IF k > Len(lines) THEN scopes = <<>>
    ELSE Bind(Statement(lines[k]), LAMBDA st :
        LET known == UNION {scopes[s] : s \in 1..Len(scopes)}
            then(next) == Bind(next, LAMBDA sc : CompilesFrom(lines, k + 1, sc))
        IN  CASE st.shape = "skip" -> then(scopes)
              [] st.shape = "main" -> scopes = <<>> /\ then(<<{}>>)
              [] st.shape = "declare" ->
                     /\ scopes # <<>>
                     /\ IsName(st.name)
                     /\ st.name \notin Back(scopes)
                     /\ st.expression.ok
                     /\ NamesIn(st.expression.node) \subseteq known \cup {st.name}
                     /\ then([scopes EXCEPT ![Len(scopes)] = @ \cup {st.name}])
              [] st.shape = "assign" ->
                     /\ st.name \in known
                     /\ st.expression.ok
                     /\ NamesIn(st.expression.node) \subseteq known
                     /\ then(scopes)
              [] st.shape = "print" ->
                     /\ scopes # <<>>
                     /\ st.expression.ok
                     /\ NamesIn(st.expression.node) \subseteq known
                     /\ then(scopes)
              [] st.shape = "while" ->
                     /\ scopes # <<>>
                     /\ st.expression.ok
                     /\ NamesIn(st.expression.node) \subseteq known
                     /\ then(Append(scopes, {}))
              [] st.shape = "for" ->
                     /\ scopes # <<>>
                     /\ IsName(st.name)
                     /\ st.expression.ok
                     /\ st.limit.ok
                     /\ NamesIn(st.expression.node) \cup NamesIn(st.limit.node)
                            \subseteq known \cup {st.name}
                     /\ then(scopes \o <<{st.name, ForBody}, {}>>)
              [] st.shape = "close" ->
                     /\ scopes # <<>>
                     /\ IF Len(scopes) > 1 /\ ForBody \in scopes[Len(scopes) - 1]
                        THEN then(PopBack(PopBack(scopes)))
                        ELSE then(PopBack(scopes))
              [] st.shape = "return" -> scopes # <<>> /\ then(scopes)
              [] OTHER -> FALSE)

Compiles(text) == CompilesFrom(ProgramOf(text), 1, <<>>)

\* The binary as it starts.
NewRun(text) ==
    [state |-> "running", lines |-> ProgramOf(text), pc |-> 1, blocks |-> <<>>,
     printed |-> <<>>]

\* The innermost open block that holds the variable.
HolderOf(blocks, name) ==
    CHOOSE b \in 1..Len(blocks) :
        /\ name \in DOMAIN blocks[b].variables
        /\ \A c \in (b + 1)..Len(blocks) : name \notin DOMAIN blocks[c].variables

RECURSIVE ValueOf(_, _)
ValueOf(node, blocks) ==
    CASE node.kind = "number" -> node.value
      [] node.kind = "name" -> blocks[HolderOf(blocks, node.name)].variables[node.name]
      [] node.kind = "binary" ->
             LET left == ValueOf(node.left, blocks)
                 right == ValueOf(node.right, blocks)
                 truth(b) == IF b THEN 1 ELSE 0
             IN  CASE node.op = "+" -> left + right
                   [] node.op = "-" -> left - right
                   [] node.op = "*" -> left * right
                   [] node.op = "<" -> truth(left < right)
                   [] node.op = "<=" -> truth(left <= right)
                   [] node.op = ">" -> truth(left > right)
                   [] node.op = ">=" -> truth(left >= right)
                   [] node.op = "==" -> truth(left = right)
                   [] node.op = "&&" -> truth(left # 0 /\ right # 0)
                   [] node.op = "||" -> truth(left # 0 \/ right # 0)

\* The } that closes the block opened at line k.
ClosingOf(lines, k) ==
    LET opens(from, to) ==
            Cardinality({j \in from..to : lines[j] # <<>> /\ Back(lines[j]) = "{"})
        closes(from, to) == Cardinality({j \in from..to : lines[j] = <<"}">>})
        matches(j) ==
            lines[j] = <<"}">> /\ opens(k + 1, j - 1) = closes(k + 1, j - 1)
    IN  CHOOSE j \in (k + 1)..Len(lines) :
            matches(j) /\ \A earlier \in (k + 1)..(j - 1) : ~matches(earlier)

\* int of the platform g++ compiles for.
IntMax == 2147483647
IntMin == (-IntMax) - 1

\* One statement of the running program.  A declaration brings its name into scope
\* before its initializer is evaluated, so an initializer that reads the name reads
\* whatever the memory held; ++ of a counter that holds IntMax overflows, and the
\* counter then holds whatever the build leaves in it.
runStep(r, garbage) ==
    LET st == Statement(r.lines[r.pc])
        on == [r EXCEPT !.pc = @ + 1]
        top == Len(r.blocks)
        with(variables, name, value) ==
            [v \in DOMAIN variables \cup {name} |-> IF v = name THEN value ELSE variables[v]]
        body(head) == [kind |-> "body", head |-> head, variables |-> [v \in {} |-> 0]]
    IN  CASE st.shape = "skip" -> on
          [] st.shape = "main" ->
                 [on EXCEPT !.blocks = <<[kind |-> "main", head |-> r.pc,
                                          variables |-> [v \in {} |-> 0]]>>]
          [] st.shape = "declare" ->
                 LET fresh == [r.blocks EXCEPT ![top].variables = with(@, st.name, garbage)]
                 IN  [on EXCEPT !.blocks[top].variables =
                         with(@, st.name, ValueOf(st.expression.node, fresh))]
          [] st.shape = "assign" ->
                 [on EXCEPT !.blocks[HolderOf(r.blocks, st.name)].variables[st.name] =
                     ValueOf(st.expression.node, r.blocks)]
          [] st.shape = "print" ->
                 [on EXCEPT !.printed = Append(@, ValueOf(st.expression.node, r.blocks))]
          [] st.shape = "while" ->
                 IF ValueOf(st.expression.node, r.blocks) # 0
                 THEN [on EXCEPT !.blocks = Append(@, [kind |-> "while", head |-> r.pc,
                                                       variables |-> [v \in {} |-> 0]])]
                 ELSE [r EXCEPT !.pc = ClosingOf(r.lines, r.pc) + 1]
          [] st.shape = "for" ->
                 LET fresh == Append(r.blocks, [kind |-> "for", head |-> r.pc,
                                                variables |-> with(<<>>, st.name, garbage)])
                     begun == [fresh EXCEPT ![top + 1].variables[st.name] =
                                  ValueOf(st.expression.node, fresh)]
                 IN  IF begun[top + 1].variables[st.name] <= ValueOf(st.limit.node, begun)
                     THEN [on EXCEPT !.blocks = Append(begun, body(r.pc))]
                     ELSE [r EXCEPT !.pc = ClosingOf(r.lines, r.pc) + 1]
          [] st.shape = "close" /\ r.blocks[top].kind = "body" ->
                 LET head == r.blocks[top].head
                     loop == Statement(r.lines[head])
                     counter == r.blocks[top - 1].variables[loop.name]
                     stepped == [PopBack(r.blocks) EXCEPT ![top - 1].variables[loop.name] =
                                    IF counter = IntMax THEN garbage ELSE counter + 1]
                 IN  IF stepped[top - 1].variables[loop.name]
                            <= ValueOf(loop.limit.node, stepped)
                     THEN [r EXCEPT !.pc = head + 1, !.blocks = Append(stepped, body(head))]
                     ELSE [r EXCEPT !.pc = @ + 1, !.blocks = PopBack(stepped)]
          [] st.shape = "close" /\ r.blocks[top].kind # "body" ->
                 IF r.blocks[top].kind = "while"
                 THEN [r EXCEPT !.pc = r.blocks[top].head, !.blocks = PopBack(@)]
                 ELSE [r EXCEPT !.state = "exited", !.blocks = PopBack(@)]
          [] st.shape = "return" -> [r EXCEPT !.state = "exited", !.blocks = <<>>]

(***************************************************************************)
(* app.cpp of the line-oriented translator: BearLangTranslator::translate  *)
(* on scripts whose statements are `vvod` lines.  parseStatement is        *)
(* modelled on those lines only.                                           *)
(***************************************************************************)
kIndentSize == 4

IsSpace(ch) == ch \in {" ", "\t", "\n", "\r"}

trimCopy(value) ==
    LET kept == {k \in 1..Len(value) : ~IsSpace(SubSeq(value, k, k))}
    IN  IF kept = {} THEN ""
        ELSE SubSeq(value, CHOOSE k \in kept : \A other \in kept : k <= other,
                           CHOOSE k \in kept : \A other \in kept : k >= other)

\* The loop of stripComments: i is the index it stands at.
RECURSIVE stripCommentsFrom(_, _, _)
stripCommentsFrom(line, i, inString) ==
    IF i + 1 >= Len(line) THEN line
    ELSE LET c == CharAt(line, i)
             now == IF c = "\"" /\ (i = 0 \/ CharAt(line, i - 1) # "\\")
                    THEN ~inString ELSE inString
         IN  IF ~now /\ c = "/" /\ CharAt(line, i + 1) = "/" THEN SubSeq(line, 1, i)
             ELSE stripCommentsFrom(line, i + 1, now)

stripComments(line) == stripCommentsFrom(line, 0, FALSE)

\* The loop of indentLevel.
RECURSIVE indentLevelFrom(_, _, _, _)
indentLevelFrom(line, i, spaces, level) ==
    IF i < Len(line) /\ CharAt(line, i) = " "
    THEN IF spaces + 1 = kIndentSize THEN indentLevelFrom(line, i + 1, 0, level + 1)
         ELSE indentLevelFrom(line, i + 1, spaces + 1, level)
    ELSE IF i < Len(line) /\ CharAt(line, i) = "\t"
    THEN indentLevelFrom(line, i + 1, 0, level + 1)
    ELSE IF spaces > 0 THEN level + 1 ELSE level

indentLevel(line) == indentLevelFrom(line, 0, 0, 0)

RECURSIVE Spaces(_)
Spaces(n) == IF n = 0 THEN "" ELSE " " \o Spaces(n - 1)

indentation(logicalIndent) == Spaces((logicalIndent + 1) * kIndentSize)

beginsWithWord(text, word) ==
    IF Len(text) < Len(word) THEN FALSE
    ELSE IF SubSeq(text, 1, Len(word)) # word THEN FALSE
    ELSE IF Len(text) = Len(word) THEN TRUE
    ELSE IsSpace(CharAt(text, Len(word))) \/ CharAt(text, Len(word)) = "("

\* stream >> token, until the stream ends: the runs of characters other than spaces.
RECURSIVE streamTokens(_, _, _)
streamTokens(text, at, token) ==
    LET flush == IF token = "" THEN <<>> ELSE <<token>>
    IN  IF at >= Len(text) THEN flush
        ELSE IF IsSpace(CharAt(text, at)) THEN flush \o streamTokens(text, at + 1, "")
        ELSE streamTokens(text, at + 1, token \o CharAt(text, at))

RECURSIVE cinChain(_)
cinChain(names) == IF names = <<>> THEN "" ELSE " >> " \o Head(names) \o cinChain(Tail(names))

\* BearLangTranslator::parseInput: the Statement it returns and the errors after it.
translatorParseInput(trimmed, lineNumber, errors) ==
    LET remainder == trimCopy(SubSeq(trimmed, Len("vvod") + 1, Len(trimmed)))
    IN  IF remainder = ""
        THEN [has |-> TRUE,
              statement |-> [cppLine |-> "// oshibka vvoda", opensBlock |-> FALSE],
              errors |-> Append(errors, "Stroka " \o ToString(lineNumber)
                                            \o ": komanda \"vvod\" trebuet imya peremennoj.")]
        ELSE [has |-> TRUE,
              statement |-> [cppLine |-> "std::cin" \o cinChain(streamTokens(remainder, 0, ""))
                                             \o ";",
                             opensBlock |-> FALSE],
              errors |-> errors]

\* BearLangTranslator::parseStatement, on a line that begins with the word `vvod`.
translatorParseStatement(trimmed, lineNumber, errors) ==
    CASE /\ \A word \in {"inache esli", "esli", "inache", "poka", "dlya"} :
                ~beginsWithWord(trimmed, word)
         /\ beginsWithWord(trimmed, "vvod") ->
             translatorParseInput(trimmed, lineNumber, errors)

\* std::getline over the script: its lines, the last one with or without "\n".
getlines(script) ==
    IF script = "" THEN <<>>
    ELSE LET whole == IF SubSeq(script, Len(script), Len(script)) = "\n" THEN script
                      ELSE script \o "\n"
         IN  [k \in 1..Cardinality(LineEnds(whole)) |-> LineOf(whole, k)]

\* The blocks translate closes before a line of this indent.
RECURSIVE closeBlocks(_, _)
closeBlocks(t, level) ==
    IF t.blockStack # <<>> /\ Back(t.blockStack) >= level
    THEN closeBlocks([t EXCEPT !.body = @ \o indentation(Back(t.blockStack)) \o "}\n",
                               !.blockStack = PopBack(@)], level)
    ELSE t

\* One turn of the loop of translate, on line lineNumber.
translateLine(t, line, lineNumber) ==
    LET withoutComments ==
            stripComments(IF line # "" /\ SubSeq(line, Len(line), Len(line)) = "\r"
                          THEN SubSeq(line, 1, Len(line) - 1) ELSE line)
        trimmed == trimCopy(withoutComments)
    IN  IF trimmed = "" THEN t
        ELSE Bind(closeBlocks(t, indentLevel(withoutComments)), LAMBDA closed :
             Bind(translatorParseStatement(trimmed, lineNumber, closed.errors), LAMBDA parsed :
                 IF ~parsed.has THEN [closed EXCEPT !.errors = parsed.errors]
                 ELSE [closed EXCEPT
                          !.errors = parsed.errors,
                          !.body = @ \o indentation(indentLevel(withoutComments))
                                     \o parsed.statement.cppLine \o "\n",
                          !.blockStack = IF parsed.statement.opensBlock
                                         THEN Append(@, indentLevel(withoutComments))
                                         ELSE @]))

RECURSIVE translateLines(_, _, _)
translateLines(t, lines, lineNumber) ==
    IF lineNumber > Len(lines) THEN t
    ELSE Bind(translateLine(t, lines[lineNumber], lineNumber), LAMBDA next :
             translateLines(next, lines, lineNumber + 1))

\* BearLangTranslator::translate: its TranslationResult.
translate(script) ==
    Bind(closeBlocks(translateLines([body |-> "", blockStack |-> <<>>, errors |-> <<>>],
                                    getlines(script), 1), 0 - 1),
         LAMBDA t :
        IF t.errors # <<>>
        THEN [state |-> "returned", success |-> FALSE, cppCode |-> "", errors |-> t.errors]
        ELSE [state |-> "returned", success |-> TRUE,
              cppCode |-> "#include <iostream>\n" \o "#include <string>\n"
                              \o "#include <cmath>\n" \o "\n" \o "int main() {\n"
                              \o indentation(0) \o "std::ios::sync_with_stdio(false);\n"
                              \o indentation(0) \o "std::cin.tie(nullptr);\n"
                              \o t.body
                              \o indentation(0) \o "return 0;\n" \o "}\n",
              errors |-> <<>>])

(***************************************************************************)
(* app.cpp of the line-oriented translator: convertExponent, which         *)
(* processSegment applies to every piece of an expression outside string   *)
(* literals.  Indexes count from 0, as in the code; npos is -1.            *)
(***************************************************************************)
npos == 0 - 1

\* text.find(ch, pos)
find(text, ch, pos) ==
    LET found == {i \in pos..(Len(text) - 1) : CharAt(text, i) = ch}
    IN  IF found = {} THEN npos ELSE CHOOSE i \in found : \A j \in found : i <= j

isOperatorSymbol(c) ==
    c \in {"+", "-", "*", "/", "%", "^", "&", "|", "!", "=", "<", ">", "?", ":", ","}

RECURSIVE skipSpacesBackward(_, _)
skipSpacesBackward(text, index) ==
    IF index > 0 /\ IsSpace(CharAt(text, index - 1))
    THEN skipSpacesBackward(text, index - 1)
    ELSE index

RECURSIVE skipSpacesForward(_, _)
skipSpacesForward(text, index) ==
    IF index < Len(text) /\ IsSpace(CharAt(text, index))
    THEN skipSpacesForward(text, index + 1)
    ELSE index

\* The loop of extractOperandBounds that looks for the ( of a ) to the left: i is the
\* index it looks at, -1 when there is none.
RECURSIVE openingBefore(_, _, _)
openingBefore(text, i, depth) ==
    IF i < 0 THEN npos
    ELSE IF CharAt(text, i) = ")" THEN openingBefore(text, i - 1, depth + 1)
    ELSE IF CharAt(text, i) = "("
    THEN IF depth = 1 THEN i ELSE openingBefore(text, i - 1, depth - 1)
    ELSE openingBefore(text, i - 1, depth)

\* The loop that looks for the ) of a ( to the right.
RECURSIVE closingAfter(_, _, _)
closingAfter(text, i, depth) ==
    IF i >= Len(text) THEN npos
    ELSE IF CharAt(text, i) = "(" THEN closingAfter(text, i + 1, depth + 1)
    ELSE IF CharAt(text, i) = ")"
    THEN IF depth = 1 THEN i ELSE closingAfter(text, i + 1, depth - 1)
    ELSE closingAfter(text, i + 1, depth)

\* The loop that walks left over an operand without parentheses.
RECURSIVE operandStart(_, _)
operandStart(text, start) ==
    IF start > 0 /\ ~IsSpace(CharAt(text, start - 1))
           /\ ~isOperatorSymbol(CharAt(text, start - 1))
    THEN operandStart(text, start - 1)
    ELSE start

\* The loop that walks right over an operand without parentheses.
RECURSIVE operandEnd(_, _)
operandEnd(text, end) ==
    IF end < Len(text) /\ ~IsSpace(CharAt(text, end)) /\ ~isOperatorSymbol(CharAt(text, end))
    THEN operandEnd(text, end + 1)
    ELSE end

\* extractOperandBounds that takes a call as the left operand: the name before the
\* ( belongs to it.
extractOperandBounds_wholeCall(text, caretPos, searchLeft, errors, lineNumber) ==
    IF searchLeft
    THEN IF caretPos = 0 \/ skipSpacesBackward(text, caretPos) = 0
         THEN [first |-> 0, second |-> 0,
               errors |-> Append(errors, "Stroka " \o ToString(lineNumber)
                                   \o ": otsutstvuet levaya chast' dlya operatora '^'.")]
         ELSE LET end == skipSpacesBackward(text, caretPos)
              IN  IF CharAt(text, end - 1) = ")"
                  THEN LET opening == openingBefore(text, end - 2, 1)
                       IN  IF opening >= 0
                           THEN [first |-> operandStart(text, opening), second |-> end, errors |-> errors]
                           ELSE [first |-> 0, second |-> 0,
                                 errors |-> Append(errors,
                                     "Stroka " \o ToString(lineNumber)
                                         \o ": ne udalos' najti nachalo vyrazheniya pered '^'.")]
                  ELSE [first |-> operandStart(text, end), second |-> end, errors |-> errors]
    ELSE LET start == skipSpacesForward(text, caretPos + 1)
         IN  IF start >= Len(text)
             THEN [first |-> Len(text), second |-> Len(text),
                   errors |-> Append(errors, "Stroka " \o ToString(lineNumber)
                                       \o ": otsutstvuet pravaya chast' dlya operatora '^'.")]
             ELSE IF CharAt(text, start) = "("
             THEN LET closing == closingAfter(text, start + 1, 1)
                  IN  IF closing >= 0
                      THEN [first |-> start, second |-> closing + 1, errors |-> errors]
                      ELSE [first |-> start, second |-> start,
                            errors |-> Append(errors,
                                "Stroka " \o ToString(lineNumber)
                                    \o ": ne udalos' najti okonchanie vyrazheniya posle '^'.")]
             ELSE [first |-> start, second |-> operandEnd(text, start), errors |-> errors]

\* The pair it returns, and the errors after it.
extractOperandBounds(text, caretPos, searchLeft, errors, lineNumber) ==
    IF searchLeft
    THEN IF caretPos = 0 \/ skipSpacesBackward(text, caretPos) = 0
         THEN [first |-> 0, second |-> 0,
               errors |-> Append(errors, "Stroka " \o ToString(lineNumber)
                                   \o ": otsutstvuet levaya chast' dlya operatora '^'.")]
         ELSE LET end == skipSpacesBackward(text, caretPos)
              IN  IF CharAt(text, end - 1) = ")"
                  THEN LET opening == openingBefore(text, end - 2, 1)
                       IN  IF opening >= 0
                           THEN [first |-> opening, second |-> end, errors |-> errors]
                           ELSE [first |-> 0, second |-> 0,
                                 errors |-> Append(errors,
                                     "Stroka " \o ToString(lineNumber)
                                         \o ": ne udalos' najti nachalo vyrazheniya pered '^'.")]
                  ELSE [first |-> operandStart(text, end), second |-> end, errors |-> errors]
    ELSE LET start == skipSpacesForward(text, caretPos + 1)
         IN  IF start >= Len(text)
             THEN [first |-> Len(text), second |-> Len(text),
                   errors |-> Append(errors, "Stroka " \o ToString(lineNumber)
                                       \o ": otsutstvuet pravaya chast' dlya operatora '^'.")]
             ELSE IF CharAt(text, start) = "("
             THEN LET closing == closingAfter(text, start + 1, 1)
                  IN  IF closing >= 0
                      THEN [first |-> start, second |-> closing + 1, errors |-> errors]
                      ELSE [first |-> start, second |-> start,
                            errors |-> Append(errors,
                                "Stroka " \o ToString(lineNumber)
                                    \o ": ne udalos' najti okonchanie vyrazheniya posle '^'.")]
             ELSE [first |-> start, second |-> operandEnd(text, start), errors |-> errors]

\* text.replace(pos, count, replacement)
replace(text, pos, count, replacement) ==
    SubSeq(text, 1, pos) \o replacement \o SubSeq(text, pos + count + 1, Len(text))

\* The loop of convertExponent.
RECURSIVE convertExponentFrom(_, _, _, _)
convertExponentFrom(text, from, errors, lineNumber) ==
    Bind(find(text, "^", from), LAMBDA pos :
        IF pos = npos THEN [text |-> text, errors |-> errors]
        ELSE
        Bind(extractOperandBounds(text, pos, TRUE, errors, lineNumber), LAMBDA leftBounds :
        Bind(extractOperandBounds(text, pos, FALSE, leftBounds.errors, lineNumber),
             LAMBDA rightBounds :
            IF leftBounds.first = leftBounds.second \/ rightBounds.first = rightBounds.second
            THEN [text |-> text, errors |-> rightBounds.errors]
            ELSE LET left == trimCopy(SubSeq(text, leftBounds.first + 1, leftBounds.second))
                     right == trimCopy(SubSeq(text, rightBounds.first + 1,
                                              rightBounds.second))
                     replacement == "std::pow(" \o left \o ", " \o right \o ")"
                 IN  convertExponentFrom(
                         replace(text, leftBounds.first,
                                 rightBounds.second - leftBounds.first, replacement),
                         leftBounds.first + Len(replacement),
                         rightBounds.errors, lineNumber))))

convertExponent(text, errors, lineNumber) == convertExponentFrom(text, 0, errors, lineNumber)

\* translate has not been called.
NoTranslation == [state |-> "none", success |-> FALSE, cppCode |-> "", errors |-> <<>>]

(***************************************************************************)
(* The lexer, one pass of its loop at a time.                              *)
(***************************************************************************)
\* The lines a source is made of: code at indents 0, 1, 2 and 4 (a tab), with a CR
\* inside the indentation or before the line feed; blank lines and comment-only
\* lines at indents of their own; a lone slash and an illegal character.
CodeLines == {"x", " x", "  x", "\tx", " \rx", "x\r"}

BlankLines == {"", " ", "\t\r"}

CommentLines == {"//", " //", "\t//"}

OtherLines == {"/", "@"}

Lines == CodeLines \cup BlankLines \cup CommentLines \cup OtherLines

RECURSIVE LinesUpTo(_)
LinesUpTo(n) ==
    IF n = 0 THEN {""}
    ELSE LET shorter == LinesUpTo(n - 1)
         IN  shorter \cup {s \o l \o "\n" : s \in shorter, l \in Lines}

\* Up to MaxLines lines; the last one ends with or without its line feed.
LexSources ==
    LinesUpTo(MaxLines) \cup {s \o l : s \in LinesUpTo(MaxLines - 1), l \in Lines}

LexInit ==
    /\ \E source \in LexSources : lexer = NewLexer(source)
    /\ lexResult = NoResult
    /\ parser = NoParser
    /\ parseResult = NoParse
    /\ gen = NoGen
    /\ genResult = NoText
    /\ app = NoApp
    /\ run = NoRun
    /\ translation = NoTranslation

Running == lexResult.kind = "none"

LexPass ==
    /\ Running
    /\ lexer.current_ < Len(lexer.source_)
    /\ lexer' = tokenizePass(lexer)
    /\ lexResult' = IF lexer'.thrown
                    THEN [kind |-> "error", tokens |-> <<>>, what |-> lexer'.what]
                    ELSE lexResult
    /\ UNCHANGED <<parser, parseResult, gen, genResult, app, run, translation>>

LexReturn ==
    /\ Running
    /\ lexer.current_ >= Len(lexer.source_)
    /\ lexer' = tokenizeEnd(lexer)
    /\ lexResult' = [kind |-> "tokens", tokens |-> lexer'.tokens_, what |-> ""]
    /\ UNCHANGED <<parser, parseResult, gen, genResult, app, run, translation>>

LexNext == LexPass \/ LexReturn

Spec == LexInit /\ [][LexNext]_vars

(***************************************************************************)
(* The pipeline of translateAndRun: tokenize, parseProgram, generate, each *)
(* run to its end.                                                         *)
(***************************************************************************)
OpWords == {"ili", "i", "==", "<", "<=", ">", ">=", "+", "-", "*", "/", "%", "^"}

ExprSource(op1, op2) == "x = a " \o op1 \o " b " \o op2 \o " c\n"

ExprSources == {ExprSource(op1, op2) : op1 \in OpWords, op2 \in OpWords}

SimpleStatements ==
    {"vyvod 1", "vyvod 1 // c", "celoe x = 1", "x = 1", "vvod x", "celoe x = 2 ^ 3 ^ 2"}

BlockHead == "poka (x)\n  "

LastLineSources ==
    {head \o statement \o end :
        head \in {"", BlockHead}, statement \in SimpleStatements, end \in {"", "\n"}}

ScopeManglingSource ==
    "celoe x = 1\n" \o "poka (x < 3)\n" \o "    celoe x = 10\n" \o "    vyvod x\n"
        \o "    x = x + 1\n"

CountingSource == "celoe n = 3\n" \o "dlya (celoe k ot 1 do n)\n" \o "    vyvod k\n"

\* A prefix operator on the left operand of each binary operator.
PrefixWords == {"-", "ne "}

UnarySource(prefix, op) == "x = " \o prefix \o "a " \o op \o " b\n"

UnarySources == {UnarySource(prefix, op) : prefix \in PrefixWords, op \in OpWords}

PipeSources ==
    ExprSources \cup UnarySources \cup LastLineSources
        \cup {ScopeManglingSource, CountingSource}

PipeInit ==
    /\ \E source \in PipeSources : lexer = NewLexer(source)
    /\ lexResult = NoResult
    /\ parser = NoParser
    /\ parseResult = NoParse
    /\ gen = NoGen
    /\ genResult = NoText
    /\ app = NoApp
    /\ run = NoRun
    /\ translation = NoTranslation

PipeTokenize ==
    /\ lexResult.kind = "none"
    /\ lexer' = tokenize(lexer)
    /\ lexResult' = IF lexer'.thrown
                    THEN [kind |-> "error", tokens |-> <<>>, what |-> lexer'.what]
                    ELSE [kind |-> "tokens", tokens |-> lexer'.tokens_, what |-> ""]
    /\ UNCHANGED <<parser, parseResult, gen, genResult, app, run, translation>>

PipeParse ==
    /\ lexResult.kind = "tokens"
    /\ parseResult.kind = "none"
    /\ \E parsed \in {parseProgram(NewParser(lexResult.tokens))} :
           /\ parser' = parsed.p
           /\ parseResult' =
                  IF parsed.p.thrown
                  THEN [kind |-> "error", program |-> [statements |-> <<>>],
                        what |-> parsed.p.what]
                  ELSE [kind |-> "program", program |-> [statements |-> parsed.statements],
                        what |-> ""]
    /\ UNCHANGED <<lexer, lexResult, gen, genResult, app, run, translation>>

PipeGenerate ==
    /\ parseResult.kind = "program"
    /\ genResult.kind = "none"
    /\ gen' = generate(parseResult.program)
    /\ genResult' = [kind |-> "text", text |-> gen'.out]
    /\ UNCHANGED <<lexer, lexResult, parser, parseResult, app, run, translation>>

PipeNext == PipeTokenize \/ PipeParse \/ PipeGenerate

PipeSpec == PipeInit /\ [][PipeNext]_vars

(***************************************************************************)
(* generate, one step at a time, on programs as the parser builds them:    *)
(* declarations, references and blocks of one and two levels, with bodies  *)
(* of up to MaxBody statements, and the program of the scope-mangling      *)
(* scenario.                                                               *)
(***************************************************************************)
MaxBody == 2

Identifiers == {"x", "y", "n", "k"}

IntegerOf(text) == makeLiteral("Integer", text, FALSE)

DeclareX == makeVarDecl("Integer", "x", IntegerOf("10"))        \* celoe x = 10

DeclareFromX == makeVarDecl("Integer", "x", makeVariable("x"))  \* celoe x = x

OutputX == makeOutput(makeVariable("x"))                        \* vyvod x

OutputY == makeOutput(makeVariable("y"))                        \* vyvod y

AssignX == makeAssign("x", makeBinary("+", makeVariable("x"), IntegerOf("1")))  \* x = x + 1

InputX == makeInput("x")                                        \* vvod x

XBelow3 == makeBinary("<", makeVariable("x"), IntegerOf("3"))   \* x < 3

LeafStatements == {DeclareX, DeclareFromX, OutputX, AssignX, InputX}

InnerBlocks ==
    {makeWhile(XBelow3, <<DeclareX>>),
     makeWhile(XBelow3, <<AssignX>>),
     makeFor("Integer", "y", IntegerOf("1"), makeVariable("x"), <<OutputY>>)}

BodyStatements == LeafStatements \cup InnerBlocks

\* The bodies of 1..n statements.
RECURSIVE Bodies(_)
Bodies(n) ==
    IF n = 1 THEN {<<statement>> : statement \in BodyStatements}
    ELSE Bodies(n - 1)
             \cup {Append(body, statement) :
                      body \in Bodies(n - 1), statement \in BodyStatements}

Blocks ==
    {makeWhile(XBelow3, body) : body \in Bodies(MaxBody)}
        \cup {makeFor("Integer", counter, IntegerOf("1"), makeVariable("x"), body) :
                 counter \in {"x", "y"}, body \in Bodies(MaxBody)}
        \cup {makeIf(<<IfBranch(XBelow3, body)>>, elseBranch, elseBranch # <<>>) :
                 body \in Bodies(MaxBody),
                 elseBranch \in {<<>>, <<OutputX>>, <<DeclareX>>}}
        \cup {makeIf(<<IfBranch(XBelow3, <<DeclareX>>), IfBranch(XBelow3, body)>>,
                     <<OutputX>>, TRUE) :
                 body \in Bodies(MaxBody)}

\* The Program of the scope-mangling scenario, as the lexer and the parser build it.
ScopeManglingProgram ==
    [statements |->
        parseProgram(NewParser(tokenize(NewLexer(ScopeManglingSource)).tokens_)).statements]

\* The Program of the counting scenario, built in the same way.
CountingProgram ==
    [statements |->
        parseProgram(NewParser(tokenize(NewLexer(CountingSource)).tokens_)).statements]

GenPrograms ==
    {[statements |-> before \o <<block>> \o after] :
        before \in {<<>>, <<DeclareX>>},
        block \in Blocks,
        after \in {<<>>, <<OutputX>>, <<AssignX>>}}
        \cup {ScopeManglingProgram, CountingProgram}

GenInit ==
    /\ lexer = NewLexer("")
    /\ lexResult = NoResult
    /\ parser = NoParser
    /\ \E program \in GenPrograms :
           /\ parseResult = [kind |-> "program", program |-> program, what |-> ""]
           /\ gen = NewGen(program)
    /\ genResult = NoText
    /\ app = NoApp
    /\ run = NoRun
    /\ translation = NoTranslation

GenPass ==
    /\ gen.work # <<>>
    /\ gen' = genPass(gen)
    /\ UNCHANGED <<lexer, lexResult, parser, parseResult, genResult, app, run, translation>>

GenReturn ==
    /\ gen.work = <<>>
    /\ genResult.kind = "none"
    /\ genResult' = [kind |-> "text", text |-> gen.out]
    /\ UNCHANGED <<lexer, lexResult, parser, parseResult, gen, app, run, translation>>

GenNext == GenPass \/ GenReturn

GenSpec == GenInit /\ [][GenNext]_vars

(***************************************************************************)
(* translateAndRun on a source file: tokenize, parseProgram, generate,     *)
(* compileAndRun, with the catch that reports the first exception.  The    *)
(* sources are the scope-mangling scenario and its neighbours (other start *)
(* values and limits, with and without the inner declaration), sources     *)
(* that fail in the lexer, in the parser or in g++, and one that reads its *)
(* variable in its own initializer.  The run of the binary is followed     *)
(* until it has printed MaxPrinted lines.                                  *)
(***************************************************************************)
MaxPrinted == 4

MaxGarbage == 1

ShadowSource(start, limit, inner) ==
    "celoe x = " \o ToString(start) \o "\n" \o "poka (x < " \o ToString(limit) \o ")\n"
        \o (IF inner THEN "    celoe x = 10\n" ELSE "") \o "    vyvod x\n"
        \o "    x = x + 1\n"

ShadowSources == {ShadowSource(start, limit, inner) :
                      start \in 0..2, limit \in 2..3, inner \in BOOLEAN}

LexicalFailure == "celoe x = 1\n" \o "x = @\n"

SyntacticFailure == "celoe = 1\n" \o "vyvod 2\n"

BothFailures == "celoe = 1\n" \o "x = @\n"

Undeclared == "vyvod y\n"

OwnInitializer == "celoe x = x\n" \o "vyvod x\n"

\* Sources the lexer rejects, and sources the lexer accepts and the parser rejects.
LexicalFailures ==
    {LexicalFailure, BothFailures, "vyvod \"a\n",
     "poka (x)\n" \o "    vyvod 1\n" \o "  vyvod 2\n"}

SyntacticFailures == {SyntacticFailure, "poka (x)\n" \o "vyvod 1\n", "vyvod 1"}

FailingSources == LexicalFailures \cup SyntacticFailures

\* Up to MaxDeclared declarations of x, the k-th with the value 4 + k, and then a
\* statement that uses the identifier vr_K, which the source declares nowhere: it
\* prints it, or assigns 9 to it and prints x.
MaxDeclared == 2

RECURSIVE DeclarationsOfX(_)
DeclarationsOfX(n) ==
    IF n = 0 THEN ""
    ELSE DeclarationsOfX(n - 1) \o "celoe x = " \o ToString(4 + n) \o "\n"

CaptureUses == {"vyvod", "assign"}

CaptureSource(n, K, use) ==
    DeclarationsOfX(n)
        \o (IF use = "vyvod" THEN "vyvod vr_" \o ToString(K) \o "\n"
            ELSE "vr_" \o ToString(K) \o " = 9\n" \o "vyvod x\n")

CaptureCases ==
    {[n |-> n, K |-> K, use |-> use, source |-> CaptureSource(n, K, use)] :
        n \in 1..MaxDeclared, K \in 1..(MaxDeclared + 1), use \in CaptureUses}

CaptureSources == {c.source : c \in CaptureCases}

AppSources ==
    ShadowSources \cup FailingSources \cup {Undeclared, OwnInitializer}
        \cup CaptureSources

CppPath == "generated_program.cpp"

ExePath == "generated_program"

CompileCommand == "g++ -std=c++03 \"" \o CppPath \o "\" -o \"" \o ExePath \o "\""

RunCommand == "\"" \o ExePath \o "\""

AppInit ==
    /\ \E source \in AppSources : lexer = NewLexer(source)
    /\ lexResult = NoResult
    /\ parser = NoParser
    /\ parseResult = NoParse
    /\ gen = NoGen
    /\ genResult = NoText
    /\ app = NoApp
    /\ run = NoRun
    /\ translation = NoTranslation

\* A catch that reports the exception and hands what there is to compileAndRun.
AppCatch_thenCompiles ==
    /\ app.returned = "none"
    /\ lexResult.kind = "error" \/ parseResult.kind = "error"
    /\ app' = [app EXCEPT
                  !.written = Append(@, [path |-> CppPath, text |-> genResult.text]),
                  !.commands = <<CompileCommand>>,
                  !.cerr = Append(@, "Oshibka: " \o (IF lexResult.kind = "error"
                                                     THEN lexResult.what
                                                     ELSE parseResult.what))
                               \o <<"Kompilyator vernul oshibku.">>,
                  !.returned = "false"]
    /\ UNCHANGED <<lexer, lexResult, parser, parseResult, gen, genResult, run, translation>>

\* catch (const std::exception& ex)
AppCatch ==
    /\ app.returned = "none"
    /\ lexResult.kind = "error" \/ parseResult.kind = "error"
    /\ app' = [app EXCEPT
                  !.cerr = Append(@, "Oshibka: " \o (IF lexResult.kind = "error"
                                                     THEN lexResult.what
                                                     ELSE parseResult.what)),
                  !.returned = "false"]
    /\ UNCHANGED <<lexer, lexResult, parser, parseResult, gen, genResult, run, translation>>

\* compileAndRun up to the start of the binary.
AppCompile ==
    /\ app.returned = "none"
    /\ genResult.kind = "text"
    /\ app.commands = <<>>
    /\ \E compiled \in {Compiles(genResult.text)} :
           /\ app' = [app EXCEPT
                         !.written = Append(@, [path |-> CppPath, text |-> genResult.text]),
                         !.commands = IF compiled THEN <<CompileCommand, RunCommand>>
                                      ELSE <<CompileCommand>>,
                         !.cerr = IF compiled THEN @
                                  ELSE Append(@, "Kompilyator vernul oshibku."),
                         !.returned = IF compiled THEN @ ELSE "false"]
           /\ run' = IF compiled THEN NewRun(genResult.text) ELSE run
    /\ UNCHANGED <<lexer, lexResult, parser, parseResult, gen, genResult, translation>>

\* What an int can hold when the program did not put it there.
Garbage == (0..MaxGarbage) \cup {IntMin}

\* The binary, one statement further.
AppRunStep ==
    /\ run.state = "running"
    /\ Len(run.printed) < MaxPrinted
    /\ \E garbage \in Garbage : run' = runStep(run, garbage)
    /\ UNCHANGED <<lexer, lexResult, parser, parseResult, gen, genResult, app, translation>>

\* return runResult == 0
AppReturn ==
    /\ app.returned = "none"
    /\ run.state = "exited"
    /\ app' = [app EXCEPT !.returned = "true"]
    /\ UNCHANGED <<lexer, lexResult, parser, parseResult, gen, genResult, run, translation>>

AppNext ==
    \/ PipeTokenize
    \/ PipeParse
    \/ PipeGenerate
    \/ AppCatch
    \/ AppCompile
    \/ AppRunStep
    \/ AppReturn

AppSpec == AppInit /\ [][AppNext]_vars

(***************************************************************************)
(* translateAndRun on counting loops: `dlya (celoe k ot a do b)` that      *)
(* prints its counter, for bounds next to zero and next to the largest int.*)
(***************************************************************************)
MaxCount == 2

LoopEnds == (0..MaxCount) \cup {IntMax - 1, IntMax}

LoopSource(from, to) ==
    "dlya (celoe k ot " \o ToString(from) \o " do " \o ToString(to) \o ")\n"
        \o "    vyvod k\n"

LoopCases ==
    {[from |-> from, to |-> to, source |-> LoopSource(from, to)] :
        from \in LoopEnds, to \in LoopEnds}

CountingSources == {c.source : c \in LoopCases}

\* A header without the counter's type, which parseFor refuses.
UntypedLoop == "dlya (k ot 0 do 2)\n    vyvod k\n"

LoopSources == CountingSources \cup {UntypedLoop}

LoopInit ==
    /\ \E source \in LoopSources : lexer = NewLexer(source)
    /\ lexResult = NoResult
    /\ parser = NoParser
    /\ parseResult = NoParse
    /\ gen = NoGen
    /\ genResult = NoText
    /\ app = NoApp
    /\ run = NoRun
    /\ translation = NoTranslation

LoopSpec == LoopInit /\ [][AppNext]_vars

(***************************************************************************)
(* tokenize, parseProgram and generate on sources made of statement        *)
(* headers and what follows them: every header of a block with every kind  *)
(* of continuation (same line, end of file, unindented line, blank or      *)
(* comment lines, which the lexer turns into NEWLINE tokens of their own,  *)
(* bodies of one and two statements, a nested block), and                  *)
(* chains of `inache esli` and `inache` clauses of up to MaxClauses        *)
(* clauses after an `esli`; statements that print a string literal; and    *)
(* one source for each error of the lexer.                                 *)
(***************************************************************************)
MaxClauses == 3

FirstBranch == "esli (x)\n" \o "  vyvod 0\n"

\* The headers of blocks: the text before the header, the header, and the
\* context under which parseIndentedBlock is called for it.
BlockHeaders ==
    {[before |-> "", head |-> "esli (x)", context |-> "usloviya 'esli'"],
     [before |-> FirstBranch, head |-> "inache esli (x)",
      context |-> "usloviya 'inache esli'"],
     [before |-> FirstBranch, head |-> "inache", context |-> "bloka 'inache'"],
     [before |-> "", head |-> "poka (x)", context |-> "cikla 'poka'"],
     [before |-> "", head |-> "dlya (celoe k ot 1 do 2)", context |-> "cikla 'dlya'"]}

\* What follows a header, and what the block then lacks.
BlockFollowers ==
    {[text |-> " vyvod 1\n", lacks |-> "Newline"],
     [text |-> "", lacks |-> "Newline"],
     [text |-> "\n", lacks |-> "Indent"],
     [text |-> "\n" \o "vyvod 1\n", lacks |-> "Indent"],
     [text |-> "\n" \o "\n", lacks |-> "Indent"],
     [text |-> "\n" \o "  // c\n", lacks |-> "Indent"],
     [text |-> "\n" \o "  // c\n" \o "vyvod 1\n", lacks |-> "Indent"],
     [text |-> "\n" \o "  vyvod 1\n", lacks |-> "nothing"],
     [text |-> "\n" \o "  vyvod 1", lacks |-> "nothing"],
     [text |-> "\n" \o "  vyvod 1\n" \o "  vyvod 2\n", lacks |-> "nothing"],
     [text |-> "\n" \o "\n" \o "  vyvod 1\n", lacks |-> "Indent"],
     [text |-> "\n" \o "  vyvod 1\n" \o "\n" \o "  // c\n" \o "  vyvod 2\n"
                   \o "vyvod 3\n", lacks |-> "nothing"],
     [text |-> "\n" \o "  poka (x)\n" \o "    vyvod 1\n", lacks |-> "nothing"],
     [text |-> "\n" \o "  poka (x)\n" \o "    vyvod 1\n" \o "vyvod 2\n",
      lacks |-> "nothing"],
     [text |-> "\n" \o "  poka (x)\n" \o "  vyvod 2\n", lacks |-> "inner Indent"]}

BlockSource(header, follower) == header.before \o header.head \o follower.text

BlockSources ==
    {BlockSource(header, follower) : header \in BlockHeaders, follower \in BlockFollowers}

\* Chains of clauses after the first branch: each clause is `inache esli` or `inache`.
ClauseKinds == {"inache esli", "inache"}

Chains == UNION {[1..n -> ClauseKinds] : n \in 0..MaxClauses}

RECURSIVE ClausesText(_, _)
ClausesText(chain, k) ==
    IF k > Len(chain) THEN ""
    ELSE (IF chain[k] = "inache esli" THEN "inache esli (x)\n" ELSE "inache\n")
             \o "  vyvod " \o ToString(k) \o "\n" \o ClausesText(chain, k + 1)

ChainSource(chain, after) == FirstBranch \o ClausesText(chain, 1) \o after

ChainEnds == {"", "vyvod 9\n"}

ChainSources == {ChainSource(chain, after) : chain \in Chains, after \in ChainEnds}

\* String literals of up to MaxPieces pieces, a piece being a plain character (a tab
\* and a carriage return among them) or one of the four escape sequences.
MaxPieces == 2

PlainPieces == {"a", " ", "/", "\t", "\r"}

EscapePieces == {"\\\\", "\\\"", "\\n", "\\t"}

RECURSIVE Joined(_)
Joined(pieces) == IF pieces = <<>> THEN "" ELSE Head(pieces) \o Joined(Tail(pieces))

LiteralBodies ==
    {Joined(pieces) :
        pieces \in UNION {[1..n -> PlainPieces \cup EscapePieces] : n \in 0..MaxPieces}}

StringSource(inner) == "vyvod \"" \o inner \o "\"\n"

StringSources == {StringSource(inner) : inner \in LiteralBodies}

\* One source for each error the lexer throws.
IllegalCharacter == "poka (x)\n" \o "  y = $\n"

UnterminatedString == "vyvod \"a"

NewlineInString == "x = 1\n" \o "vyvod \"a\n" \o "\"\n"

IllegalEscape == "vyvod \"a\\q\"\n"

UnfinishedEscape == "vyvod \"a\\"

InconsistentDedent == "poka (x)\n" \o "    vyvod 1\n" \o "  vyvod 2\n"

LexErrorSources ==
    {IllegalCharacter, UnterminatedString, NewlineInString, IllegalEscape,
     UnfinishedEscape, InconsistentDedent}

\* The header of a counting loop without its `dlya (` and `)`, as a line of its own.
BareRange == "celoe k ot 0 do 2"

BareRangeSources == {BareRange, BareRange \o "\n", BareRange \o "\n" \o "  vyvod k\n"}

\* Programs with up to MaxFill blank or comment lines put in at one place: before
\* the first line, or after any line.  headers are the lines that open a block.
MaxFill == 2

Fillers == {"\n", "// c\n", "      // c\n"}

Fills == UNION {[1..n -> Fillers] : n \in 1..MaxFill}

GapBases ==
    {[lines |-> <<"celoe x = 1\n", "esli (x)\n", "  vyvod 1\n", "  vyvod 2\n",
                  "inache esli (x)\n", "  vyvod 3\n", "inache\n", "  vyvod 4\n",
                  "vyvod 5\n">>,
      headers |-> {2, 5, 7}],
     [lines |-> <<"poka (x)\n", "  dlya (celoe k ot 1 do 2)\n", "    vyvod k\n",
                  "  vyvod 2\n", "vyvod 3\n">>,
      headers |-> {1, 2}]}

GapCases ==
    UNION {{[base |-> base, gap |-> gap, fill |-> fill] :
               gap \in 0..Len(base.lines), fill \in Fills} : base \in GapBases}

GapSource(c) ==
    Joined(SubSeq(c.base.lines, 1, c.gap)) \o Joined(c.fill)
        \o Joined(SubSeq(c.base.lines, c.gap + 1, Len(c.base.lines)))

GapSources == {GapSource(c) : c \in GapCases}

ParseSources ==
    BlockSources \cup ChainSources \cup StringSources \cup LexErrorSources
        \cup BareRangeSources \cup GapSources

ParseInit ==
    /\ \E source \in ParseSources : lexer = NewLexer(source)
    /\ lexResult = NoResult
    /\ parser = NoParser
    /\ parseResult = NoParse
    /\ gen = NoGen
    /\ genResult = NoText
    /\ app = NoApp
    /\ run = NoRun
    /\ translation = NoTranslation

ParseSpec == ParseInit /\ [][PipeNext]_vars

(***************************************************************************)
(* generate called twice on one Program in one process: tokenize and       *)
(* parseProgram on every source of the pipeline and of the parser's        *)
(* specification, then generate, then generate again on the same Program.  *)
(***************************************************************************)
TwiceSources == PipeSources \cup ParseSources

TwiceInit ==
    /\ \E source \in TwiceSources : lexer = NewLexer(source)
    /\ lexResult = NoResult
    /\ parser = NoParser
    /\ parseResult = NoParse
    /\ gen = NoGen
    /\ genResult = NoText
    /\ app = NoApp
    /\ run = NoRun
    /\ translation = NoTranslation

\* The second call of generate; genResult is what the last call returned.
GenerateAgain ==
    /\ genResult.kind = "text"
    /\ gen' = generate(parseResult.program)
    /\ genResult' = [kind |-> "text again", text |-> gen'.out]
    /\ UNCHANGED <<lexer, lexResult, parser, parseResult, app, run, translation>>

TwiceNext == PipeTokenize \/ PipeParse \/ PipeGenerate \/ GenerateAgain

TwiceSpec == TwiceInit /\ [][TwiceNext]_vars

(***************************************************************************)
(* One line `vvod ...`, given to both translators: to tokenize,            *)
(* parseProgram and generate, and to BearLangTranslator::translate.  After *)
(* the keyword stand up to MaxNames words, identifiers or other tokens.    *)
(***************************************************************************)
MaxNames == 3

InputNames == {"a", "b", "c"}

InputOthers == {"1", "+"}

InputWords == UNION {[1..n -> InputNames \cup InputOthers] : n \in 0..MaxNames}

RECURSIVE Spaced(_)
Spaced(words) == IF words = <<>> THEN "" ELSE " " \o Head(words) \o Spaced(Tail(words))

InputSource(words) == "vvod" \o Spaced(words) \o "\n"

InputSources == {InputSource(words) : words \in InputWords}

InputInit ==
    /\ \E source \in InputSources : lexer = NewLexer(source)
    /\ lexResult = NoResult
    /\ parser = NoParser
    /\ parseResult = NoParse
    /\ gen = NoGen
    /\ genResult = NoText
    /\ app = NoApp
    /\ run = NoRun
    /\ translation = NoTranslation

\* The line-oriented translator is given the same script.
Translate ==
    /\ translation.state = "none"
    /\ translation' = translate(lexer.source_)
    /\ UNCHANGED <<lexer, lexResult, parser, parseResult, gen, genResult, app, run>>

InputNext == PipeNext \/ Translate

InputSpec == InputInit /\ [][InputNext]_vars

(***************************************************************************)
(* tokenize, pass by pass, on sources of up to MaxBytes pieces among which *)
(* carriage returns stand anywhere: in indentation, before a line end,     *)
(* inside words, operators, comments and string literals.                  *)
(***************************************************************************)
MaxBytes == 3

BytePieces == {"a", "=", "/", "\"", " ", "\n", "\r"}

ByteSources ==
    {Joined(pieces) : pieces \in UNION {[1..n -> BytePieces] : n \in 0..MaxBytes}}

ByteInit ==
    /\ \E source \in ByteSources : lexer = NewLexer(source)
    /\ lexResult = NoResult
    /\ parser = NoParser
    /\ parseResult = NoParse
    /\ gen = NoGen
    /\ genResult = NoText
    /\ app = NoApp
    /\ run = NoRun
    /\ translation = NoTranslation

ByteSpec == ByteInit /\ [][LexNext]_vars

(***************************************************************************)
(* convertExponent on one line's expression: chains of up to MaxCarets     *)
(* carets between names, numbers and parenthesised operands, with and      *)
(* without spaces around the carets, and carets that lack an operand.      *)
(***************************************************************************)
MaxCarets == 2

Operands == {"a", "b", "n2", "7", "(a + b)"}

CaretSpellings == {" ^ ", "^"}

RECURSIVE ChainText(_, _, _)
ChainText(operands, caret, k) ==
    IF k = Len(operands) THEN operands[k]
    ELSE operands[k] \o caret \o ChainText(operands, caret, k + 1)

PowerCases ==
    {[operands |-> operands, caret |-> caret, text |-> ChainText(operands, caret, 1)] :
        operands \in UNION {[1..n -> Operands] : n \in 1..(MaxCarets + 1)},
        caret \in CaretSpellings}

LoneCarets == {"^ a", "a ^", "a ^ ", "^", "a) ^ b", "a ^ (b"}

PowerSources == {c.text : c \in PowerCases} \cup LoneCarets

\* The expression is the text the translator has in hand; NewLexer holds it.
PowerInit ==
    /\ \E expression \in PowerSources : lexer = NewLexer(expression)
    /\ lexResult = NoResult
    /\ parser = NoParser
    /\ parseResult = NoParse
    /\ gen = NoGen
    /\ genResult = NoText
    /\ app = NoApp
    /\ run = NoRun
    /\ translation = NoTranslation

\* convertExponent(segment, errors, 1); cppCode is the text it returns.
ConvertExponent ==
    /\ translation.state = "none"
    /\ \E converted \in {convertExponent(lexer.source_, <<>>, 1)} :
           translation' = [state |-> "converted", success |-> converted.errors = <<>>,
                           cppCode |-> converted.text, errors |-> converted.errors]
    /\ UNCHANGED <<lexer, lexResult, parser, parseResult, gen, genResult, app, run>>

PowerSpec == PowerInit /\ [][ConvertExponent]_vars

(***************************************************************************)
(* tokenize and parseProgram, each followed through its loop: one pass of  *)
(* the lexer's loop at a time, then one statement of parseProgram's loop   *)
(* at a time.  The process runs on as long as it has a step to take.       *)
(***************************************************************************)
StepSources ==
    PipeSources \cup BlockSources \cup ChainSources \cup LexErrorSources
        \cup BareRangeSources \cup ByteSources

StepInit ==
    /\ \E source \in StepSources : lexer = NewLexer(source)
    /\ lexResult = NoResult
    /\ parser = NoParser
    /\ parseResult = NoParse
    /\ gen = NoGen
    /\ genResult = NoText
    /\ app = NoApp
    /\ run = NoRun
    /\ translation = NoTranslation

\* Parser parser(tokens); parseProgram up to its loop.
ParseBegin ==
    /\ lexResult.kind = "tokens"
    /\ parseResult.kind = "none"
    /\ parser' = skipNewlines(NewParser(lexResult.tokens))
    /\ parseResult' = [kind |-> "parsing", program |-> [statements |-> <<>>], what |-> ""]
    /\ UNCHANGED <<lexer, lexResult, gen, genResult, app, run, translation>>

\* One turn of the loop of parseProgram.
ParseOne ==
    /\ parseResult.kind = "parsing"
    /\ ~isAtEnd(parser)
    /\ \E stmt \in {parseStatement(parser)} :
           IF stmt.p.thrown
           THEN /\ parser' = stmt.p
                /\ parseResult' = [kind |-> "error", program |-> [statements |-> <<>>],
                                   what |-> stmt.p.what]
           ELSE /\ parser' = skipNewlines(stmt.p)
                /\ parseResult' =
                       [parseResult EXCEPT !.program.statements = Append(@, stmt.node)]
    /\ UNCHANGED <<lexer, lexResult, gen, genResult, app, run, translation>>

\* return program
ParseReturn ==
    /\ parseResult.kind = "parsing"
    /\ isAtEnd(parser)
    /\ parseResult' = [parseResult EXCEPT !.kind = "program"]
    /\ UNCHANGED <<lexer, lexResult, parser, gen, genResult, app, run, translation>>

StepNext == LexPass \/ LexReturn \/ ParseBegin \/ ParseOne \/ ParseReturn

StepSpec == StepInit /\ [][StepNext]_vars /\ WF_vars(StepNext)

(***************************************************************************)
(* What the claims about the lexer speak of, read off the source text      *)
(* itself and not off the lexer's own scan.                                *)
(***************************************************************************)
IndentChars == {" ", "\t", "\r"}

CountType(tokens, type) == Cardinality({k \in 1..Len(tokens) : tokens[k].type = type})

\* The index at which the line holding index `at` begins.
LineBegin(source, at) ==
    CHOOSE p \in 0..at :
        /\ p = 0 \/ CharAt(source, p - 1) = "\n"
        /\ \A q \in p..(at - 1) : CharAt(source, q) # "\n"

\* Where the leading indentation of the line that begins at p ends.
IndentEnd(source, p) ==
    CHOOSE q \in p..Len(source) :
        /\ q = Len(source) \/ CharAt(source, q) \notin IndentChars
        /\ \A r \in p..(q - 1) : CharAt(source, r) \in IndentChars

\* The indent of the line that begins at p: a space counts 1, a tab 4.
MeasuredIndent(source, p) ==
    LET lead == p..(IndentEnd(source, p) - 1)
    IN  Cardinality({r \in lead : CharAt(source, r) = " "})
            + 4 * Cardinality({r \in lead : CharAt(source, r) = "\t"})

\* Only spaces, tabs and CRs before the line feed.
IsBlankLine(source, p) ==
    LET q == IndentEnd(source, p) IN q < Len(source) /\ CharAt(source, q) = "\n"

\* The first content after the indentation is //.
IsCommentLine(source, p) ==
    LET q == IndentEnd(source, p)
    IN  q + 1 < Len(source) /\ CharAt(source, q) = "/" /\ CharAt(source, q + 1) = "/"

\* A line with something to tokenize.
IsCodeLine(source, p) ==
    /\ IndentEnd(source, p) < Len(source)
    /\ ~IsBlankLine(source, p)
    /\ ~IsCommentLine(source, p)

\* The 1-based number of the line holding index `at`.
LineNumber(source, at) ==
    1 + Cardinality({q \in 0..(at - 1) : CharAt(source, q) = "\n"})

AtLineBegin(lx) ==
    /\ lx.current_ < Len(lx.source_)
    /\ LineBegin(lx.source_, lx.current_) = lx.current_

\* The tokens a pass of the loop added.
Added(before, after) == SubSeq(after.tokens_, Len(before.tokens_) + 1, Len(after.tokens_))

IsIndentation(token) == token.type \in {"Indent", "Dedent"}

\* C1: when tokenize succeeds, the stream has as many DEDENTs as INDENTs, no prefix
\* of it has more DEDENTs than INDENTs, every indent level open at the end of the input
\* has been closed before EOF (the stack is back to its bottom), and EOF is the last
\* token and occurs once.
C1_IndentsBalanced ==
    lexResult.kind = "tokens" =>
        LET tokens == lexResult.tokens
        IN  /\ CountType(tokens, "Dedent") = CountType(tokens, "Indent")
            /\ \A k \in 1..Len(tokens) :
                   CountType(SubSeq(tokens, 1, k), "Dedent")
                       <= CountType(SubSeq(tokens, 1, k), "Indent")
            /\ lexer.indentStack_ = <<0>>
            /\ Len(tokens) >= 1
            /\ tokens[Len(tokens)].type = "EndOfFile"
            /\ CountType(tokens, "EndOfFile") = 1

\* Two levels still open at the end of the input, closed by two DEDENTs before EOF.
C1_Witness ==
    /\ lexResult.kind = "tokens"
    /\ CountType(lexResult.tokens, "Indent") = 2
    /\ Len(lexResult.tokens) >= 3
    /\ lexResult.tokens[Len(lexResult.tokens) - 1].type = "Dedent"
    /\ lexResult.tokens[Len(lexResult.tokens) - 2].type = "Dedent"

\* C3: a pass that starts a line with something to tokenize, of measured indent n
\* with t on top of the stack, pushes n and adds one INDENT when n > t, pops every
\* level above n and adds one DEDENT per popped level when n < t, and adds neither
\* when n = t; these tokens come before every other token of the line.  Every such
\* line is met with the at-line-start flag set.
C3_Step ==
    (Running /\ AtLineBegin(lexer) /\ IsCodeLine(lexer.source_, lexer.current_)) =>
        LET n      == MeasuredIndent(lexer.source_, lexer.current_)
            stack  == lexer.indentStack_
            t      == Back(stack)
            above  == Cardinality({k \in 1..Len(stack) : stack[k] > n})
            added  == Added(lexer, lexer')
            marks  == IF n > t THEN 1 ELSE above
        IN  /\ lexer.atLineStart_
            /\ Len(added) >= marks
            /\ \A k \in 1..Len(added) :
                   IsIndentation(added[k]) <=> k <= marks
            /\ \A k \in 1..marks :
                   added[k].type = (IF n > t THEN "Indent" ELSE "Dedent")
            /\ lexer'.indentStack_ =
                   (IF n > t THEN Append(stack, n) ELSE SubSeq(stack, 1, Len(stack) - above))
            /\ SubSeq(lexer'.tokens_, 1, Len(lexer.tokens_)) = lexer.tokens_

C3_IndentPerLine == [][C3_Step]_vars

\* A line that popped two levels at once.
C3_Witness ==
    /\ Len(lexer.tokens_) >= 2
    /\ lexer.tokens_[Len(lexer.tokens_)].type = "Identifier"
    /\ lexer.tokens_[Len(lexer.tokens_) - 1].type = "Dedent"
    /\ Len(lexer.tokens_) >= 3
    /\ lexer.tokens_[Len(lexer.tokens_) - 2].type = "Dedent"
    /\ lexer.indentStack_ = <<0>>
    /\ Running

\* C4: a line whose indent is below the top of the stack and is no level of the
\* stack makes tokenize throw "Nesoglasovannyj otstup na stroke L", L the number of
\* that line, and the caller gets no tokens, though some were scanned.
C4_Step ==
    (/\ Running /\ AtLineBegin(lexer) /\ IsCodeLine(lexer.source_, lexer.current_)
     /\ MeasuredIndent(lexer.source_, lexer.current_) < Back(lexer.indentStack_)
     /\ \A k \in 1..Len(lexer.indentStack_) :
            lexer.indentStack_[k] # MeasuredIndent(lexer.source_, lexer.current_)) =>
        /\ lexer'.thrown
        /\ lexResult'.kind = "error"
        /\ lexResult'.what = "Nesoglasovannyj otstup na stroke "
                                 \o ToString(LineNumber(lexer.source_, lexer.current_))
        /\ lexResult'.tokens = <<>>

C4_InconsistentDedent == [][C4_Step]_vars

\* The third line dedents to a level that was never pushed; tokens had been scanned.
C4_Witness ==
    /\ lexResult.kind = "error"
    /\ lexResult.what = "Nesoglasovannyj otstup na stroke 3"
    /\ lexResult.tokens = <<>>
    /\ Len(lexer.tokens_) > 0

\* C5: no pass over a blank line or over a line that starts with a comment adds an
\* INDENT or a DEDENT, changes the indent stack or throws, whatever the line's own
\* indentation.
C5_Step ==
    (/\ Running
     /\ lexer.current_ < Len(lexer.source_)
     /\ LET p == LineBegin(lexer.source_, lexer.current_)
        IN  IsBlankLine(lexer.source_, p) \/ IsCommentLine(lexer.source_, p)) =>
        /\ \A k \in 1..Len(Added(lexer, lexer')) : ~IsIndentation(Added(lexer, lexer')[k])
        /\ lexer'.indentStack_ = lexer.indentStack_
        /\ ~lexer'.thrown
        /\ lexResult' = lexResult

C5_BlankAndCommentLines == [][C5_Step]_vars

\* A comment line and a blank line, each indented to a level that is not on the
\* stack, went by: the stack still holds the level of the first line.
C5_Witness ==
    /\ Running
    /\ lexer.indentStack_ = <<0, 2>>
    /\ lexer.line_ = 3
    /\ lexer.current_ < Len(lexer.source_)
    /\ \E p \in 1..lexer.current_ :
           /\ LineBegin(lexer.source_, p) = p
           /\ IsCommentLine(lexer.source_, p)
           /\ MeasuredIndent(lexer.source_, p) = 1
    /\ IsBlankLine(lexer.source_, lexer.current_)
    /\ MeasuredIndent(lexer.source_, lexer.current_) = 4

(***************************************************************************)
(* What the claims about the parser and the emitted text speak of.         *)
(***************************************************************************)
\* The binding level of an operator, from the loosest (1) to the tightest (7).
Level(op) ==
    CASE op = "ili" -> 1
      [] op = "i" -> 2
      [] op = "==" -> 3
      [] op \in {"<", "<=", ">", ">="} -> 4
      [] op \in {"+", "-"} -> 5
      [] op \in {"*", "/", "%"} -> 6
      [] op = "^" -> 7

Spelled(op) == IF op = "ili" THEN "||" ELSE IF op = "i" THEN "&&" ELSE op

Operand(name) == [kind |-> "Variable", name |-> name]

Number(text) == [kind |-> "Literal", type |-> "Integer", text |-> text, boolValue |-> FALSE]

Tree(op, left, right) ==
    [kind |-> "Binary", op |-> Spelled(op), left |-> left, right |-> right]

Written(op, left, right) ==
    IF op = "^" THEN "std::pow(" \o left \o ", " \o right \o ")"
    ELSE "(" \o left \o " " \o Spelled(op) \o " " \o right \o ")"

\* The whole translation unit around the lines of main.
MainOf(lines) ==
    "#include <cmath>\n#include <iostream>\n#include <string>\n\nint main() {\n"
        \o "    std::ios_base::sync_with_stdio(false);\n" \o lines \o "    return 0;\n}\n"

Translated == parseResult.kind # "none" \/ lexResult.kind = "error"

\* C2 (as claimed): a simple statement (declaration, assignment, vvod, vyvod) that is
\* followed by DEDENT or by the end of the source with no newline in between is
\* accepted by the parser, so every source that ends in such a statement, with or
\* without a final newline, parses to a Program.
C2_FinalNewlineOptional ==
    (lexer.source_ \in LastLineSources /\ Translated) => parseResult.kind = "program"

\* The last line `vyvod 1` with no final newline has been parsed.
C2_Witness ==
    /\ lexer.source_ = "vyvod 1"
    /\ parseResult.kind = "error"
    /\ parseResult.what = "Ozhidaetsya perevod stroki posle operatora vyvoda"

\* C6: for every assignment `x = a op1 b op2 c` whose two operators are of different
\* levels, the source is accepted, and the tree and the emitted text group `b op2 c`
\* as the right operand of op1 when op1 is the looser, `a op1 b` as the left operand of
\* op2 when op2 is the looser.
C6_Precedence ==
    \A op1 \in OpWords : \A op2 \in OpWords :
        (lexer.source_ = ExprSource(op1, op2) /\ Level(op1) # Level(op2)) =>
            LET a == Operand("a")
                b == Operand("b")
                c == Operand("c")
                tree == IF Level(op1) < Level(op2)
                        THEN Tree(op1, a, Tree(op2, b, c))
                        ELSE Tree(op2, Tree(op1, a, b), c)
                text == IF Level(op1) < Level(op2)
                        THEN Written(op1, "a", Written(op2, "b", "c"))
                        ELSE Written(op2, Written(op1, "a", "b"), "c")
            IN  /\ lexResult.kind # "error"
                /\ parseResult.kind # "error"
                /\ parseResult.kind = "program" =>
                       parseResult.program.statements =
                           <<[kind |-> "Assign", name |-> "x", value |-> tree]>>
                /\ genResult.kind = "text" =>
                       genResult.text = MainOf("    x = " \o text \o ";\n")

\* `x = a i b < c` and its mirror image have been translated.
C6_Witness ==
    \/ /\ lexer.source_ = ExprSource("i", "<")
       /\ genResult.kind = "text"
       /\ genResult.text = MainOf("    x = (a && (b < c));\n")
    \/ /\ lexer.source_ = ExprSource("*", "+")
       /\ genResult.kind = "text"
       /\ genResult.text = MainOf("    x = ((a * b) + c);\n")

PowerDeclaration == "celoe x = 2 ^ 3 ^ 2"

\* C7: `a ^ b ^ c` is parsed as Binary(^, a, Binary(^, b, c)) and emitted as
\* std::pow(a, std::pow(b, c)); the initializer of `celoe x = 2 ^ 3 ^ 2` is parsed and
\* emitted in the same way wherever the declaration is parsed.
C7_PowerRightAssociative ==
    /\ lexer.source_ = ExprSource("^", "^") =>
           /\ lexResult.kind # "error"
           /\ parseResult.kind # "error"
           /\ parseResult.kind = "program" =>
                  parseResult.program.statements =
                      <<[kind |-> "Assign", name |-> "x",
                         value |-> Tree("^", Operand("a"),
                                        Tree("^", Operand("b"), Operand("c")))]>>
           /\ genResult.kind = "text" =>
                  genResult.text = MainOf("    x = std::pow(a, std::pow(b, c));\n")
    /\ \A head \in {"", BlockHead} : \A end \in {"", "\n"} :
           (lexer.source_ = head \o PowerDeclaration \o end /\ parseResult.kind = "program") =>
               LET statements == parseResult.program.statements
                   declaration == IF head = "" THEN statements[1] ELSE statements[1].body[1]
                   line == "int vr_1 = std::pow(2, std::pow(3, 2));\n"
               IN  /\ declaration.initializer =
                          Tree("^", Number("2"), Tree("^", Number("3"), Number("2")))
                   /\ genResult.kind = "text" =>
                          genResult.text =
                              IF head = "" THEN MainOf("    " \o line)
                              ELSE MainOf("    while (x) {\n        " \o line \o "    }\n")
    /\ lexer.source_ = PowerDeclaration \o "\n" => parseResult.kind # "error"

\* `celoe x = 2 ^ 3 ^ 2` has been translated.
C7_Witness ==
    /\ lexer.source_ = PowerDeclaration \o "\n"
    /\ genResult.kind = "text"
    /\ genResult.text = MainOf("    int vr_1 = std::pow(2, std::pow(3, 2));\n")

(***************************************************************************)
(* What the claims about names speak of, read off the record of the calls  *)
(* of the mangler and off the emitted text, not off its tables.            *)
(***************************************************************************)
History == gen.mangler.history

\* The calls of declare among the first k calls.
Declarations(h, k) == {d \in 1..k : h[d].op = "declare"}

\* How many scopes are open over the global one after the first k calls.
OpenScopes(h, k) ==
    Cardinality({c \in 1..k : h[c].op = "push"}) - Cardinality({c \in 1..k : h[c].op = "pop"})

\* The scope that declaration d was made in has not been left since.
InScope(h, d) == \A c \in d..Len(h) : OpenScopes(h, c) >= OpenScopes(h, d)

\* The declarations of an identifier that a reference made now is within the scope of.
Visible(h, original) ==
    {d \in Declarations(h, Len(h)) : h[d].original = original /\ InScope(h, d)}

\* Of those, the latest one of the innermost scope.
Nearest(h, original) ==
    CHOOSE d \in Visible(h, original) :
        \A e \in Visible(h, original) :
            \/ OpenScopes(h, e) < OpenScopes(h, d)
            \/ OpenScopes(h, e) = OpenScopes(h, d) /\ e <= d

\* The name a reference to the identifier is to be emitted as.
NameOf(h, original) ==
    IF Visible(h, original) = {} THEN original ELSE h[Nearest(h, original)].renamed

\* The generator with one table in which every identifier has the name it is to be
\* emitted as.
Flattened(g) ==
    [g EXCEPT !.mangler.scopes_ =
        <<[original \in {v \in Identifiers : Visible(g.mangler.history, v) # {}} |->
              NameOf(g.mangler.history, original)]>>]

\* The text a step appended.
Emitted(before, after) == SubSeq(after.out, Len(before.out) + 1, Len(after.out))

\* The text mentions the name (and not a longer name that begins with it).
Mentions(text, name) ==
    \E at \in 1..(Len(text) - Len(name) + 1) :
        /\ SubSeq(text, at, at + Len(name) - 1) = name
        /\ \/ at + Len(name) > Len(text)
           \/ SubSeq(text, at + Len(name), at + Len(name)) \notin Digits

\* The identifiers a list of statements declares, in the order of the statements.
RECURSIVE DeclaredIn(_)
DeclaredIn(statements) ==
    IF statements = <<>> THEN <<>>
    ELSE LET statement == Head(statements)
             RECURSIVE InBranches(_)
             InBranches(branches) ==
                 IF branches = <<>> THEN <<>>
                 ELSE DeclaredIn(Head(branches).body) \o InBranches(Tail(branches))
             here == CASE statement.kind = "VarDecl" -> <<statement.name>>
                       [] statement.kind = "ForRange" ->
                              <<statement.name>> \o DeclaredIn(statement.body)
                       [] statement.kind = "While" -> DeclaredIn(statement.body)
                       [] statement.kind = "If" ->
                              InBranches(statement.branches)
                                  \o DeclaredIn(statement.elseBranch)
                       [] OTHER -> <<>>
         IN  here \o DeclaredIn(Tail(statements))

\* The calls of declare, in order.
RECURSIVE DeclareCalls(_)
DeclareCalls(h) ==
    IF h = <<>> THEN <<>>
    ELSE (IF Head(h).op = "declare" THEN <<Head(h)>> ELSE <<>>) \o DeclareCalls(Tail(h))

ScopeManglingText ==
    MainOf("    int vr_1 = 1;\n"
               \o "    while ((vr_1 < 3)) {\n"
               \o "        int vr_2 = 10;\n"
               \o "        std::cout << vr_2 << std::endl;\n"
               \o "        vr_2 = (vr_2 + 1);\n"
               \o "    }\n")

C8_Resolve ==
    \A original \in Identifiers : resolve(gen.mangler, original) = NameOf(History, original)

C8_Scenario ==
    (parseResult.program = ScopeManglingProgram /\ genResult.kind = "text") =>
        genResult.text = ScopeManglingText

C8_Step == gen'.work # gen.work => Emitted(gen, gen') = Emitted(gen, genPass(Flattened(gen)))

\* C8: at every point of the generation an identifier resolves to the name of its
\* latest declaration in the innermost scope, still open, that declares it, and to
\* itself when no open scope declares it; every step emits the text it would emit
\* with each identifier looked up under that name, be it in an expression, as the
\* target of an assignment or of vvod; and the scope-mangling scenario is emitted
\* with the outer x as vr_1 in the loop condition and the inner x as vr_2 in
\* `vyvod x` and on both sides of `x = x + 1`.
C8_InnermostOutward == [](C8_Resolve /\ C8_Scenario) /\ [][C8_Step]_vars

\* In the scope-mangling scenario the body's `x = x + 1` has just been emitted.
C8_Witness ==
    /\ parseResult.program = ScopeManglingProgram
    /\ Len(gen.mangler.scopes_) = 2
    /\ resolve(gen.mangler, "x") = "vr_2"
    /\ gen.mangler.scopes_[1]["x"] = "vr_1"
    /\ Len(gen.out) > Len("        vr_2 = (vr_2 + 1);\n")
    /\ SubSeq(gen.out, Len(gen.out) - Len("        vr_2 = (vr_2 + 1);\n") + 1, Len(gen.out))
           = "        vr_2 = (vr_2 + 1);\n"

\* The declarations whose body has ended.
Ended(h) == {d \in Declarations(h, Len(h)) : ~InScope(h, d)}

C9_Tables ==
    /\ \A s \in 1..Len(gen.mangler.scopes_) :
           \A original \in DOMAIN gen.mangler.scopes_[s] :
               \E d \in Visible(History, original) :
                   History[d].renamed = gen.mangler.scopes_[s][original]
    /\ \A original \in Identifiers :
           /\ resolve(gen.mangler, original) \notin {History[d].renamed : d \in Ended(History)}
           /\ Visible(History, original) = {} => resolve(gen.mangler, original) = original

C9_Step ==
    \A d \in Ended(History) : ~Mentions(Emitted(gen, gen'), History[d].renamed)

\* C9: a name declared in the body of a poka, a dlya, or a branch of an esli is in
\* the tables only until that body ends: afterwards no table holds its mangled name,
\* no identifier resolves to it, and no text emitted mentions it; an identifier with
\* no declaration in an open scope resolves to itself.
C9_ScopeIsolation == []C9_Tables /\ [][C9_Step]_vars

\* A body that declared x has ended, and a reference to x has been emitted after it
\* under the outer name.
C9_Witness ==
    /\ parseResult.program.statements[1] = DeclareX
    /\ Len(gen.mangler.scopes_) = 1
    /\ \E d \in Ended(History) : History[d].original = "x"
    /\ gen.work = <<EmitText(indent(1) \o "return 0;\n" \o "}\n")>>
    /\ Len(gen.out) > Len("    std::cout << vr_1 << std::endl;\n")
    /\ SubSeq(gen.out, Len(gen.out) - Len("    std::cout << vr_1 << std::endl;\n") + 1,
              Len(gen.out)) = "    std::cout << vr_1 << std::endl;\n"

C10_Names ==
    LET calls == DeclareCalls(History)
    IN  /\ \A k \in 1..Len(calls) : calls[k].renamed = "vr_" \o ToString(k)
        /\ \A k \in 1..Len(calls) : \A l \in 1..Len(calls) :
               calls[k].renamed = calls[l].renamed => k = l
        /\ gen.work = <<>> =>
               [k \in 1..Len(calls) |-> calls[k].original]
                   = DeclaredIn(parseResult.program.statements)

C10_Step ==
    gen'.work # gen.work =>
        LET item == Head(gen.work)
            declared == Cardinality(Declarations(History, Len(History)))
            name == "vr_" \o ToString(declared + 1)
            text == Emitted(gen, gen')
            Begins(with) == Len(text) >= Len(with) /\ SubSeq(text, 1, Len(with)) = with
            declares == item.op = "emitStatement"
                            /\ item.statement.kind \in {"VarDecl", "ForRange"}
        IN  /\ Cardinality(Declarations(gen'.mangler.history, Len(gen'.mangler.history)))
                   = declared + (IF declares THEN 1 ELSE 0)
            /\ (declares /\ item.statement.kind = "VarDecl") =>
                   \/ Begins(indent(item.indentLevel) \o "int " \o name \o " = ")
                   \/ Begins(indent(item.indentLevel) \o "int " \o name \o "{}")
            /\ (declares /\ item.statement.kind = "ForRange") =>
                   Begins(indent(item.indentLevel) \o "for (int " \o name \o " = ")

\* C10: the k-th declaration of a generation, a VarDecl or the counter of a ForRange,
\* is given the name vr_k and emitted under it, k counting from 1 in the order of
\* emission and through every scope that has been left; only a declaration advances
\* the count; no two declarations have the same name; and at the end there is one
\* name per declaration of the program.
C10_FreshNames == []C10_Names /\ [][C10_Step]_vars

\* x has been declared twice in one scope, and again after a scope was left.
C10_Witness ==
    LET calls == DeclareCalls(History)
    IN  /\ Len(calls) >= 3
        /\ \E a \in 1..Len(History) : \E b \in 1..Len(History) :
               /\ a < b
               /\ History[a].op = "declare" /\ History[b].op = "declare"
               /\ History[a].original = History[b].original
               /\ \A c \in a..b : History[c].op = "declare"
        /\ \E c \in 1..Len(History) :
               History[c].op = "pop" /\ \E d \in c..Len(History) : History[d].op = "declare"
        /\ gen.work = <<>>

\* The things left to do that close a scope: the end of a body, the end of a ForRange.
IsCloser(item) ==
    \/ item.op = "popScope"
    \/ item.op = "endStatements" /\ item.createNewScope

\* What will close scope s (the global scope is 1 and is never closed).
CloserOf(g, s) == SelectSeq(g.work, IsCloser)[Len(g.mangler.scopes_) - s + 1]

\* The scopes opened by a ForRange for its counter.
CounterScopes(g) ==
    {s \in 2..Len(g.mangler.scopes_) : CloserOf(g, s).op = "popScope"}

\* All the names of the tables below scope s.
NamesBelow(g, s) ==
    UNION {{g.mangler.scopes_[t][v] : v \in DOMAIN g.mangler.scopes_[t]} : t \in 1..(s - 1)}

C11_Counter ==
    /\ Len(SelectSeq(gen.work, IsCloser)) = Len(gen.mangler.scopes_) - 1
    /\ \A s \in CounterScopes(gen) :
           LET scope == gen.mangler.scopes_[s]
           IN  /\ Cardinality(DOMAIN scope) = 1
               /\ \A counter \in DOMAIN scope :
                      /\ scope[counter] \notin NamesBelow(gen, s)
                      /\ (\A t \in (s + 1)..Len(gen.mangler.scopes_) :
                              counter \notin DOMAIN gen.mangler.scopes_[t])
                             => resolve(gen.mangler, counter) = scope[counter]

C11_Step ==
    gen'.work # gen.work =>
        LET item == Head(gen.work)
            scopes == gen.mangler.scopes_
            after == gen'.mangler.scopes_
        IN  /\ (item.op = "emitStatement" /\ item.statement.kind = "ForRange") =>
                   /\ Len(after) = Len(scopes) + 1
                   /\ SubSeq(after, 1, Len(scopes)) = scopes
                   /\ DOMAIN Back(after) = {item.statement.name}
                   /\ Back(after)[item.statement.name] \notin NamesBelow(gen', Len(after))
                   /\ Mentions(Emitted(gen, gen'),
                               "for (int " \o Back(after)[item.statement.name] \o " =")
                   /\ Head(gen'.work).op = "emitStatements"
                   /\ SelectSeq(gen'.work, IsCloser)[1].op = "popScope"
            /\ item.op = "popScope" =>
                   /\ after = PopBack(scopes)
                   /\ \A counter \in DOMAIN Back(scopes) :
                          /\ resolve(gen'.mangler, counter) # Back(scopes)[counter]
                          /\ resolve(gen'.mangler, counter) =
                                 resolveFrom(scopes, Len(scopes) - 1, counter)
                          /\ Back(scopes)[counter] \notin NamesBelow(gen', Len(after) + 1)

CountingText ==
    MainOf("    int vr_1 = 3;\n"
               \o "    for (int vr_2 = 1; vr_2 <= vr_1; ++vr_2) {\n"
               \o "        std::cout << vr_2 << std::endl;\n"
               \o "    }\n")

C11_Scenario ==
    (parseResult.program = CountingProgram /\ genResult.kind = "text") =>
        genResult.text = CountingText

\* C11: a ForRange opens a scope of its own and declares its counter there before it
\* emits the header and the body, and closes that scope after the body: the scope
\* holds the counter alone, under a name no outer table holds; while the loop is open
\* and no inner scope redeclares the identifier, it resolves to the counter's name;
\* when the loop ends the scope is dropped and the identifier resolves as it did
\* outside the loop, never to the counter's name; and the counting scenario is emitted
\* with n as vr_1 and the counter as vr_2, in the header and in the body.
C11_ForRangeScope == [](C11_Counter /\ C11_Scenario) /\ [][C11_Step]_vars

\* A loop over y that follows a declaration of x has ended: y is no longer resolvable.
C11_Witness ==
    /\ \E d \in Ended(History) : History[d].original = "y"
    /\ resolve(gen.mangler, "y") = "y"
    /\ resolve(gen.mangler, "x") = "vr_1"
    /\ Mentions(gen.out, "for (int vr_2 = 1; vr_2 <= vr_1; ++vr_2) {")
    /\ gen.work = <<>>

(***************************************************************************)
(* The run of the translated program.                                      *)
(***************************************************************************)
\* The source translateAndRun was given.
Source == lexer.source_

IsPrefix(shorter, longer) ==
    Len(shorter) <= Len(longer) /\ SubSeq(longer, 1, Len(shorter)) = shorter

\* C12: the emitted program of the scope-mangling scenario, executed, prints 10
\* exactly three times and then terminates: it never prints anything but the
\* first, second and third 10, and it has printed all three when it exits.
C12_PrintsTenThrice ==
    Source = ScopeManglingSource /\ run.state # "none" =>
        /\ IsPrefix(run.printed, <<10, 10, 10>>)
        /\ run.state = "exited" => run.printed = <<10, 10, 10>>

\* The scenario's binary has printed a fourth 10 and is still in its loop, the outer
\* variable at 1 as declared.
C12_Witness ==
    /\ Source = ScopeManglingSource
    /\ run.state = "running"
    /\ run.printed = <<10, 10, 10, 10>>
    /\ Len(run.blocks) = 2
    /\ run.blocks[1].variables = [v \in {"vr_1"} |-> 1]

(***************************************************************************)
(* Blocks and chains, read off the source and the token stream.            *)
(***************************************************************************)
\* The header and the continuation a block source is made of.
BlockCase(source) ==
    CHOOSE c \in BlockHeaders \X BlockFollowers : BlockSource(c[1], c[2]) = source

\* The bodies of the blocks of a statement, in order.
BlocksOf(stmt) ==
    CASE stmt.kind = "If" ->
             [k \in 1..Len(stmt.branches) |-> stmt.branches[k].body]
                 \o (IF stmt.hasElse THEN <<stmt.elseBranch>> ELSE <<>>)
      [] stmt.kind \in {"While", "ForRange"} -> <<stmt.body>>
      [] OTHER -> <<>>

\* The number of blocks in a list of statements, nested ones included.
RECURSIVE BlockCount(_)
BlockCount(statements) ==
    IF statements = <<>> THEN 0
    ELSE LET bodies == BlocksOf(Head(statements))
             RECURSIVE inside(_)
             inside(k) == IF k > Len(bodies) THEN 0
                          ELSE 1 + BlockCount(bodies[k]) + inside(k + 1)
         IN  inside(1) + BlockCount(Tail(statements))

\* Every block in a list of statements, nested ones included, holds a statement.
RECURSIVE EveryBodyHolds(_)
EveryBodyHolds(statements) ==
    \A k \in 1..Len(statements) :
        LET bodies == BlocksOf(statements[k])
        IN  \A b \in 1..Len(bodies) : bodies[b] # <<>> /\ EveryBodyHolds(bodies[b])

TokensOf(type) == {k \in 1..Len(lexResult.tokens) : lexResult.tokens[k].type = type}

\* C13: a block is one NEWLINE, one INDENT, statements and one DEDENT.  After the
\* header of esli, inache esli, inache, poka or dlya, a token other than NEWLINE,
\* or a NEWLINE with no INDENT right after it (no indented line follows: an empty
\* block), makes parseProgram throw the error of that header; a program that is parsed has taken one INDENT,
\* after a NEWLINE, and one DEDENT for each of its blocks, and each of its blocks,
\* at any depth, holds at least one statement.
C13_IndentedBlock ==
    /\ parseResult.kind # "none" /\ Source \in BlockSources =>
           LET header == BlockCase(Source)[1]
               lacks == BlockCase(Source)[2].lacks
           IN  CASE lacks = "Newline" ->
                        /\ parseResult.kind = "error"
                        /\ parseResult.what
                               = "Ozhidaetsya novaya stroka posle " \o header.context
                 [] lacks = "Indent" ->
                        /\ parseResult.kind = "error"
                        /\ parseResult.what = "Ozhidaetsya otstup posle " \o header.context
                 [] lacks = "inner Indent" ->
                        /\ parseResult.kind = "error"
                        /\ parseResult.what = "Ozhidaetsya otstup posle cikla 'poka'"
                 [] OTHER -> parseResult.kind = "program"
    /\ parseResult.kind = "program" =>
           /\ EveryBodyHolds(parseResult.program.statements)
           /\ BlockCount(parseResult.program.statements) = Cardinality(TokensOf("Indent"))
           /\ BlockCount(parseResult.program.statements) = Cardinality(TokensOf("Dedent"))
           /\ \A k \in TokensOf("Indent") : k > 1 /\ lexResult.tokens[k - 1].type = "Newline"

\* The header of a loop followed by a comment line alone, at a deeper indent: no
\* indented statement follows, and parseProgram has thrown.
C13_Witness ==
    /\ Source = "poka (x)\n" \o "  // c\n"
    /\ parseResult.kind = "error"
    /\ parseResult.what = "Ozhidaetsya otstup posle cikla 'poka'"
    /\ TokensOf("Indent") = {}

\* The chain and the end a chain source is made of.
ChainCase(source) == CHOOSE c \in Chains \X ChainEnds : ChainSource(c[1], c[2]) = source

\* vyvod k, and the branch `(x)` with that body.
OutputOf(k) == makeOutput(IntegerOf(ToString(k)))

BranchOf(k) == IfBranch(makeVariable("x"), <<OutputOf(k)>>)

\* The clauses of a chain that are `inache`.
ElseClauses(chain) == {k \in 1..Len(chain) : chain[k] = "inache"}

\* The If statement a chain with no clause after its `inache` stands for.
ChainIf(chain) ==
    LET conditional == Len(chain) - Cardinality(ElseClauses(chain))
    IN  makeIf([k \in 1..(conditional + 1) |-> BranchOf(k - 1)],
               IF ElseClauses(chain) = {} THEN <<>> ELSE <<OutputOf(Len(chain))>>,
               ElseClauses(chain) # {})

\* Every If in a list of statements, nested ones included, has a branch, and an
\* else body only when it is marked present.
RECURSIVE EveryIfBranches(_)
EveryIfBranches(statements) ==
    \A k \in 1..Len(statements) :
        /\ statements[k].kind = "If" =>
               /\ Len(statements[k].branches) >= 1
               /\ ~statements[k].hasElse => statements[k].elseBranch = <<>>
        /\ \A b \in 1..Len(BlocksOf(statements[k])) :
               EveryIfBranches(BlocksOf(statements[k])[b])

\* C14: every If the parser builds has at least one branch; after `esli`, each
\* `inache esli` adds one branch, in source order, and an `inache` gives the else
\* body, marks it present and ends the chain: a chain whose `inache` is its last
\* clause parses to that one If (and the statement after it, if any), and a chain
\* with any clause after its `inache` is rejected at that clause as an unexpected
\* word.
C14_IfChain ==
    /\ parseResult.kind = "program" => EveryIfBranches(parseResult.program.statements)
    /\ parseResult.kind # "none" /\ Source \in ChainSources =>
           LET chain == ChainCase(Source)[1]
               after == ChainCase(Source)[2]
           IN  IF \A k \in ElseClauses(chain) : k = Len(chain)
               THEN /\ parseResult.kind = "program"
                    /\ parseResult.program.statements
                           = <<ChainIf(chain)>> \o (IF after = "" THEN <<>> ELSE <<OutputOf(9)>>)
               ELSE /\ parseResult.kind = "error"
                    /\ parseResult.what = "Neozhidannoe slovo 'inache'"

\* esli, inache esli, inache and a second inache: parseProgram has stopped at the
\* second inache and thrown.
C14_Witness ==
    /\ Source = ChainSource(<<"inache esli", "inache", "inache">>, "")
    /\ parseResult.kind = "error"
    /\ peek(parser).type = "KeywordElse"
    /\ Cardinality({k \in 1..parser.current_ : parser.tokens_[k].type = "KeywordElse"}) = 2

(***************************************************************************)
(* String literals, from the source to the emitted text.                   *)
(***************************************************************************)
Contains(text, part) ==
    \E k \in 1..(Len(text) - Len(part) + 1) : SubSeq(text, k, k + Len(part) - 1) = part

\* What stands between the quotes of a string source.
Inner(source) == SubSeq(source, Len("vyvod \"") + 1, Len(source) - Len("\"\n"))

\* C15: for every string literal the lexer accepts, the emitted text holds, between
\* its quotes, exactly what stood between the quotes in the source.
C15_ReescapeRoundTrip ==
    Source \in StringSources /\ genResult.kind = "text" =>
        Contains(genResult.text,
                 indent(1) \o "std::cout << \"" \o Inner(Source) \o "\" << std::endl;\n")

\* A literal with a tab between its quotes has been emitted with \t in its place.
C15_Witness ==
    /\ Source = StringSource("a" \o "\t")
    /\ lexResult.kind = "tokens"
    /\ lexResult.tokens[2].lexeme = "a" \o "\t"
    /\ genResult.kind = "text"
    /\ Contains(genResult.text, "std::cout << \"a\\t\" << std::endl;")

(***************************************************************************)
(* Errors, from where they are thrown to what the user is told.            *)
(***************************************************************************)
\* Nothing after the parser has happened: no text, no file, no command, no process.
NothingGenerated ==
    /\ gen = NoGen
    /\ genResult = NoText
    /\ app.written = <<>>
    /\ app.commands = <<>>
    /\ run = NoRun

\* C16: the first lexical or syntactic error aborts the pipeline.  After a failing
\* tokenize nothing is parsed; after a failing tokenize or parseProgram nothing is
\* generated or written and neither g++ nor a binary is started; when translateAndRun
\* has returned it has reported that one error and nothing else.  The failing
\* sources do fail: in the lexer if any character is illegal, else in the parser.
C16_FirstErrorAborts ==
    /\ lexResult.kind = "error" =>
           /\ parser = NoParser
           /\ parseResult = NoParse
           /\ NothingGenerated
           /\ app.cerr \in {<<>>, <<"Oshibka: " \o lexResult.what>>}
    /\ parseResult.kind = "error" =>
           /\ NothingGenerated
           /\ app.cerr \in {<<>>, <<"Oshibka: " \o parseResult.what>>}
    /\ lexResult.kind = "error" \/ parseResult.kind = "error" =>
           /\ app.returned \in {"none", "false"}
           /\ app.returned = "false" <=> Len(app.cerr) = 1
    /\ Source \in LexicalFailures /\ lexResult.kind # "none" => lexResult.kind = "error"
    /\ Source \in SyntacticFailures /\ lexResult.kind # "none" => lexResult.kind = "tokens"
    /\ Source \in SyntacticFailures /\ parseResult.kind # "none" =>
           parseResult.kind = "error"

\* A source with a malformed declaration on its first line and an illegal character
\* on its second: tokenize has thrown, and translateAndRun has reported the lexer's
\* error alone and returned false.
C16_Witness ==
    /\ Source = BothFailures
    /\ lexResult.kind = "error"
    /\ app.cerr = <<"Oshibka: " \o lexResult.what>>
    /\ app.returned = "false"
    /\ parseResult = NoParse

\* The message names the position line:column.
NamesPosition(message, line, column) ==
    Contains(message, ToString(line) \o ":" \o ToString(column))

\* C17: every lexical error is reported with both the line and a column of that
\* line: the message of a failed tokenize names the line the lexer stands on and a
\* column.
C17_LexErrorPosition ==
    lexResult.kind = "error" =>
        \E column \in 1..(Len(Source) + 1) :
            NamesPosition(lexResult.what, lexer.line_, column)

\* tokenize has thrown at the end of a string that is never closed, and the message
\* is the bare sentence.
C17_Witness ==
    /\ Source = UnterminatedString
    /\ lexResult.kind = "error"
    /\ lexResult.what = "Nezakrytaya stroka"

\* C18: the one-line source `celoe k ot 0 do 2` is rejected by the parser, and the
\* message of the error mentions `dlya`.
C18_BareRangeMentionsFor ==
    Source \in BareRangeSources /\ parseResult.kind # "none" =>
        /\ parseResult.kind = "error"
        /\ Contains(parseResult.what, "dlya")

\* parseVarDecl has taken `celoe k` as a declaration without initializer and
\* expectNewline has thrown at `ot`.
C18_Witness ==
    /\ Source = BareRange
    /\ parseResult.kind = "error"
    /\ parseResult.what = "Ozhidaetsya perevod stroki posle obyavleniya peremennoj"
    /\ peek(parser).type = "KeywordFrom"

\* The words after `vvod` in an input source.
InputCase(source) == CHOOSE words \in InputWords : InputSource(words) = source

\* C19: in the three-stage pipeline `vvod` takes exactly one identifier: followed by
\* no identifier, or by an identifier and any further token on the line, the line
\* is rejected by the parser, and followed by one identifier alone it is parsed to
\* the Input statement; the line-oriented translator takes every word after `vvod`
\* and emits one statement std::cin >> w1 >> ... >> wn; for them, and reports an
\* error only when there is no word.
C19_InputTargets ==
    LET words == InputCase(Source)
    IN  /\ parseResult.kind # "none" =>
               IF words = <<>> \/ words[1] \notin InputNames
               THEN /\ parseResult.kind = "error"
                    /\ parseResult.what = "Ozhidaetsya peremennaya dlya vvoda"
               ELSE IF Len(words) > 1
               THEN /\ parseResult.kind = "error"
                    /\ parseResult.what = "Ozhidaetsya perevod stroki posle operatora vvoda"
               ELSE /\ parseResult.kind = "program"
                    /\ parseResult.program.statements = <<makeInput(words[1])>>
        /\ lexResult.kind \in {"none", "tokens"}
        /\ translation.state # "none" =>
               IF words = <<>>
               THEN /\ ~translation.success
                    /\ Len(translation.errors) = 1
               ELSE /\ translation.success
                    /\ translation.errors = <<>>
                    /\ Contains(translation.cppCode,
                                "{\n" \o indentation(0) \o "std::ios::sync_with_stdio(false);\n"
                                    \o indentation(0) \o "std::cin.tie(nullptr);\n"
                                    \o indentation(0) \o "std::cin" \o cinChain(words) \o ";\n"
                                    \o indentation(0) \o "return 0;\n")

\* `vvod a b c`: the parser has thrown at b, and the line-oriented translator has
\* emitted the one statement.
C19_Witness ==
    /\ Source = "vvod a b c\n"
    /\ parseResult.kind = "error"
    /\ peek(parser).lexeme = "b"
    /\ translation.success
    /\ Contains(translation.cppCode, "    std::cin >> a >> b >> c;\n")

(***************************************************************************)
(* Carriage returns.                                                       *)
(***************************************************************************)
\* The text with every carriage return taken out.
RECURSIVE WithoutCR(_)
WithoutCR(text) ==
    IF text = "" THEN ""
    ELSE (IF Head(text) = "\r" THEN "" ELSE SubSeq(text, 1, 1)) \o WithoutCR(Tail(text))

\* The kinds and lexemes of a token list, in order.
KindsAndLexemes(tokens) ==
    [k \in 1..Len(tokens) |-> <<tokens[k].type, tokens[k].lexeme>>]

\* C20: carriage returns are discarded wherever they stand: tokenize fails on a
\* source exactly when it fails on the source without its carriage returns, gives
\* the same kinds and lexemes in the same order when it does not, and no lexeme
\* holds a carriage return.
C20_CarriageReturnsDiscarded ==
    lexResult.kind # "none" =>
        LET bare == tokenize(NewLexer(WithoutCR(Source)))
        IN  /\ lexResult.kind = "error" <=> bare.thrown
            /\ lexResult.kind = "tokens" =>
                   KindsAndLexemes(lexResult.tokens) = KindsAndLexemes(bare.tokens_)
            /\ \A k \in 1..Len(lexResult.tokens) :
                   ~Contains(lexResult.tokens[k].lexeme, "\r")

\* A string literal whose only byte is a carriage return has been scanned, and the
\* byte is its lexeme.
C20_Witness ==
    /\ Source = "\"" \o "\r" \o "\""
    /\ lexResult.kind = "tokens"
    /\ lexResult.tokens[1].type = "StringLiteral"
    /\ lexResult.tokens[1].lexeme = "\r"

LoopCase == CHOOSE c \in LoopCases : c.source = Source

\* The printed values count up by one from the first.
CountsFrom(printed, from) ==
    \A k \in 1..Len(printed) :
        IF k = 1 THEN printed[k] = from
        ELSE printed[k - 1] # IntMax /\ printed[k] = printed[k - 1] + 1

\* C21: the loop emitted for `dlya (T k ot a do b)` whose body prints the counter and
\* assigns neither the counter nor the bounds runs the body once for each of
\* a, a+1, ..., b and for nothing else (once when a = b, never when a > b), and is
\* over after the pass for b.
C21_InclusiveRange ==
    (Source \in CountingSources /\ run.state # "none") =>
        /\ CountsFrom(run.printed, LoopCase.from)
        /\ \A k \in 1..Len(run.printed) : run.printed[k] <= LoopCase.to
        /\ run.state = "exited" =>
               IF LoopCase.from > LoopCase.to THEN run.printed = <<>>
               ELSE run.printed # <<>> /\ Back(run.printed) = LoopCase.to

\* The same, for the bounds below the largest int.
C21_InclusiveBelowIntMax ==
    (Source \in CountingSources /\ LoopCase.to # IntMax) => C21_InclusiveRange

C21_Witness ==
    /\ Source = LoopSource(IntMax, IntMax)
    /\ run.state = "running"
    /\ Len(run.printed) = 2
    /\ run.printed[1] = IntMax
    /\ run.printed[2] = IntMin

C21_ThreePasses ==
    /\ Source = LoopSource(0, 2)
    /\ run.state = "exited"
    /\ run.printed = <<0, 1, 2>>

\* The text of a whole program: the preamble, the statements, return 0 and the brace.
IsSuffix(ending, text) ==
    Len(ending) <= Len(text)
        /\ SubSeq(text, Len(text) - Len(ending) + 1, Len(text)) = ending

WholeProgram(text) ==
    /\ IsPrefix(Preamble, text)
    /\ IsSuffix(indent(1) \o "return 0;\n" \o "}\n", text)
    /\ Len(text) >= Len(Preamble) + Len(indent(1) \o "return 0;\n" \o "}\n")

C23_IndentStack ==
    /\ [](/\ lexer.indentStack_ # <<>>
          /\ lexer.indentStack_[1] = 0
          /\ \A k \in 2..Len(lexer.indentStack_) :
                 lexer.indentStack_[k - 1] < lexer.indentStack_[k])
    /\ [][\/ /\ Len(lexer'.indentStack_) = Len(lexer.indentStack_) + 1
              /\ PopBack(lexer'.indentStack_) = lexer.indentStack_
           \/ /\ lexer'.indentStack_ # <<>>
              /\ IsPrefix(lexer'.indentStack_, lexer.indentStack_)]_vars

\* A dedent over two levels at once, back to the bottom.
C23_Witness ==
    /\ lexer.indentStack_ = <<0>>
    /\ \E k \in 3..Len(lexer.tokens_) :
           /\ lexer.tokens_[k].type = "Dedent"
           /\ lexer.tokens_[k - 1].type = "Dedent"
    /\ Running

Depth(g) == Len(g.mangler.scopes_)

\* The generator after the first thing it has to do is done to its end, bodies and all.
AfterHead(g) == generateFrom([g EXCEPT !.work = <<Head(g.work)>>])

\* C24: the mangler's scope stack stays balanced while generate runs: it is never
\* empty; a statement that is about to be emitted, nested bodies included, leaves the
\* stack at the depth it found; entering a body pushes one scope and leaving it pops
\* one, a ForRange pushes one for its counter and pops it after its body, nothing
\* else changes the depth; and the depth is 1 when generate returns.
C24_ScopesBalanced ==
    /\ [](/\ Depth(gen) >= 1
          /\ (gen.work # <<>> /\ Head(gen.work).op = "emitStatement") =>
                 \E done \in {AfterHead(gen)} : Depth(done) = Depth(gen)
          /\ gen.work = <<>> => Depth(gen) = 1)
    /\ [][gen'.work # gen.work =>
              LET item == Head(gen.work)
              IN  Depth(gen') - Depth(gen) =
                      CASE item.op = "emitStatements" /\ item.createNewScope -> 1
                        [] item.op = "emitStatement" /\ item.statement.kind = "ForRange" -> 1
                        [] item.op = "endStatements" /\ item.createNewScope -> -1
                        [] item.op = "popScope" -> -1
                        [] OTHER -> 0]_vars

\* Inside the body of a ForRange nested in a body: two scopes above the global one for
\* the loop, one more for the outer body.
C24_Witness ==
    /\ Depth(gen) = 4
    /\ gen.work # <<>>
    /\ Head(gen.work).op = "emitStatement"
    /\ Len(SelectSeq(gen.work, LAMBDA item : item.op = "popScope")) = 1

PrefixSpelled(prefix) == IF prefix = "-" THEN "-" ELSE "!"

\* C25: an assignment `x = a op1 b op2 c` whose operators are of one level other than
\* that of ^ is accepted, and parsed and emitted as ((a op1 b) op2 c); and in
\* `x = -a op b` and `x = ne a op b` the prefix operator takes `a` alone for every
\* binary operator, ^ included: `-a ^ b` is emitted as std::pow(-(a), b).
C25_LeftAssociative ==
    /\ \A op1 \in OpWords : \A op2 \in OpWords :
           (Source = ExprSource(op1, op2) /\ Level(op1) = Level(op2) /\ op1 # "^"
                /\ Translated) =>
               /\ parseResult.kind = "program"
               /\ parseResult.program.statements =
                      <<makeAssign("x", Tree(op2, Tree(op1, Operand("a"), Operand("b")),
                                             Operand("c")))>>
               /\ genResult.kind = "text" =>
                      genResult.text =
                          MainOf("    x = " \o Written(op2, Written(op1, "a", "b"), "c")
                                     \o ";\n")
    /\ \A prefix \in PrefixWords : \A op \in OpWords :
           (Source = UnarySource(prefix, op) /\ Translated) =>
               /\ parseResult.kind = "program"
               /\ parseResult.program.statements =
                      <<makeAssign("x", Tree(op, makeUnary(PrefixSpelled(prefix), Operand("a")),
                                             Operand("b")))>>
               /\ genResult.kind = "text" =>
                      genResult.text =
                          MainOf("    x = "
                                     \o Written(op, PrefixSpelled(prefix) \o "(a)", "b")
                                     \o ";\n")

C25_Witness ==
    /\ Source = UnarySource("-", "^")
    /\ genResult.kind = "text"
    /\ genResult.text = MainOf("    x = std::pow(-(a), b);\n")

C25_SameLevel ==
    /\ Source = ExprSource("-", "+")
    /\ genResult.kind = "text"
    /\ genResult.text = MainOf("    x = ((a - b) + c);\n")

GapCase == CHOOSE c \in GapCases : GapSource(c) = Source

\* What parseProgram makes of a text.
ParsedFrom(text) == parseProgram(NewParser(tokenize(NewLexer(text)).tokens_))

\* The context parseIndentedBlock is given for a header line.
ContextOf(line) ==
    CASE Contains(line, "inache esli") -> "usloviya 'inache esli'"
      [] Contains(line, "inache") /\ ~Contains(line, "esli") -> "bloka 'inache'"
      [] Contains(line, "esli") /\ ~Contains(line, "inache") -> "usloviya 'esli'"
      [] Contains(line, "poka") -> "cikla 'poka'"
      [] Contains(line, "dlya") -> "cikla 'dlya'"

\* C26: blank or comment-only lines directly between a block header (esli, inache
\* esli, inache, poka, dlya) and the first line of its body make parseProgram throw
\* "indent expected" for that header, the lexer having put their NEWLINE between the
\* header's NEWLINE and the INDENT; the same lines anywhere else (before the first
\* statement, between two statements, after the last one) leave the parsed Program
\* as it is without them.
C26_BlankLineAfterHeader ==
    (Source \in GapSources /\ parseResult.kind # "none") =>
        IF GapCase.gap \in GapCase.base.headers
        THEN /\ parseResult.kind = "error"
             /\ parseResult.what
                    = "Ozhidaetsya otstup posle " \o ContextOf(GapCase.base.lines[GapCase.gap])
             /\ parser.current_ >= 1
             /\ \E k \in TokensOf("Indent") :
                    /\ k > parser.current_ + 1
                    /\ \A j \in parser.current_..(k - 1) :
                           lexResult.tokens[j].type = "Newline"
        ELSE /\ parseResult.kind = "program"
             /\ \E base \in {ParsedFrom(Joined(GapCase.base.lines))} :
                    /\ ~base.p.thrown
                    /\ parseResult.program.statements = base.statements

C26_Witness ==
    /\ Source = "poka (x)\n" \o "  dlya (celoe k ot 1 do 2)\n" \o "// c\n"
                    \o "    vyvod k\n" \o "  vyvod 2\n" \o "vyvod 3\n"
    /\ parseResult.kind = "error"
    /\ parseResult.what = "Ozhidaetsya otstup posle cikla 'dlya'"

C26_Elsewhere ==
    /\ Source = "poka (x)\n" \o "  dlya (celoe k ot 1 do 2)\n" \o "    vyvod k\n"
                    \o "\n" \o "// c\n" \o "  vyvod 2\n" \o "vyvod 3\n"
    /\ parseResult.kind = "program"
    /\ Len(parseResult.program.statements) = 2

\* The expression with every reference to one identifier spelled another way.
RECURSIVE Substituted(_, _, _)
Substituted(expr, name, spelling) ==
    CASE expr.kind = "Variable" ->
             IF expr.name = name THEN makeVariable(spelling) ELSE expr
      [] expr.kind = "Unary" ->
             makeUnary(expr.op, Substituted(expr.operand, name, spelling))
      [] expr.kind = "Binary" ->
             makeBinary(expr.op, Substituted(expr.left, name, spelling),
                        Substituted(expr.right, name, spelling))
      [] OTHER -> expr

\* C27: the name a declaration creates is in the mangler before the expressions of
\* the declaration are written: the initializer of `T x = e` and the bounds of
\* `dlya (T k ot a do b)` are emitted with every reference to the declared identifier
\* under the new name vr_N of this declaration, whatever an outer declaration calls
\* it, and every other identifier as it was resolved before.
C27_DeclaredBeforeEmitted ==
    [][gen'.work # gen.work =>
          LET item == Head(gen.work)
              statement == item.statement
              created == "vr_" \o ToString(gen.mangler.counter_ + 1)
              written(expr) ==
                  emitExpression(Substituted(expr, statement.name, created), gen.mangler)
          IN  /\ (item.op = "emitStatement" /\ statement.kind = "VarDecl"
                      /\ statement.initializer.kind # "Null") =>
                     /\ Emitted(gen, gen') =
                            indent(item.indentLevel) \o cppType(statement.type) \o " "
                                \o created \o " = " \o written(statement.initializer)
                                \o ";\n"
                     /\ resolve(gen'.mangler, statement.name) = created
              /\ (item.op = "emitStatement" /\ statement.kind = "ForRange") =>
                     /\ Emitted(gen, gen') =
                            indent(item.indentLevel) \o "for (" \o cppType(statement.type)
                                \o " " \o created \o " = " \o written(statement.from)
                                \o "; " \o created \o " <= " \o written(statement.to)
                                \o "; ++" \o created \o ") {\n"
                     /\ resolve(gen'.mangler, statement.name) = created]_vars

\* `celoe x = x` in a body, with an outer x that is vr_1, has been emitted under its
\* own new name on both sides.
C27_Witness ==
    /\ gen.mangler.scopes_[1] = [v \in {"x"} |-> "vr_1"]
    /\ Depth(gen) = 2
    /\ IsSuffix("        int vr_2 = vr_2;\n", gen.out)

\* `dlya (celoe x ot 1 do x)` after the declaration of an x.
C27_CounterInBound ==
    /\ gen.mangler.scopes_[1] = [v \in {"x"} |-> "vr_1"]
    /\ IsSuffix("    for (int vr_2 = 1; vr_2 <= vr_2; ++vr_2) {\n", gen.out)

CaptureCase == CHOOSE c \in CaptureCases : c.source = Source

\* The lines emitted for the declarations of a capture source.
RECURSIVE DeclarationLines(_)
DeclarationLines(n) ==
    IF n = 0 THEN ""
    ELSE DeclarationLines(n - 1)
             \o "    int vr_" \o ToString(n) \o " = " \o ToString(4 + n) \o ";\n"

\* C28: an identifier spelled vr_K that the source declares nowhere is emitted as
\* vr_K, the name generate gives to the K-th declaration of the program: when that
\* declaration is in scope there, the emitted program compiles and the reference
\* reads, or the assignment changes, the K-th declared variable; when there is no
\* K-th declaration the emitted program does not compile.
C28_FreeNameCaptured ==
    Source \in CaptureSources =>
        LET c == CaptureCase
            name == "vr_" \o ToString(c.K)
            latest == "vr_" \o ToString(c.n)
        IN  /\ genResult.kind = "text" =>
                   genResult.text =
                       MainOf(DeclarationLines(c.n)
                                  \o (IF c.use = "vyvod"
                                      THEN "    std::cout << " \o name \o " << std::endl;\n"
                                      ELSE "    " \o name \o " = 9;\n"
                                               \o "    std::cout << " \o latest
                                               \o " << std::endl;\n"))
            /\ app.commands # <<>> =>
                   IF c.K <= c.n
                   THEN /\ app.commands = <<CompileCommand, RunCommand>>
                        /\ run.state = "exited" =>
                               run.printed =
                                   <<IF c.use = "vyvod" THEN 4 + c.K
                                     ELSE IF c.K = c.n THEN 9 ELSE 4 + c.n>>
                   ELSE /\ app.commands = <<CompileCommand>>
                        /\ app.returned = "false"

\* `vyvod vr_1` after two declarations has printed the value of the first.
C28_Witness ==
    /\ Source = CaptureSource(2, 1, "vyvod")
    /\ run.state = "exited"
    /\ run.printed = <<5>>
    /\ app.returned = "true"

\* `vr_2 = 9` has changed the second x.
C28_Assigned ==
    /\ Source = CaptureSource(2, 2, "assign")
    /\ run.state = "exited"
    /\ run.printed = <<9>>

\* The parser put at token k of the tokens it has.
ParserAt(k) == [parser EXCEPT !.current_ = k]

\* C29: tokenize and parseProgram come to an end, each with a result or an error.
\* Every pass of the lexer's loop takes at least one byte of the source or throws,
\* and never goes past the end of the source; every turn of the loop of parseProgram,
\* and every statement parsed from any token of the sequence (those of nested bodies
\* among them), takes at least one token or throws; the parser's cursor never goes
\* past the EOF token; and every run ends with tokens and a Program, or with an error.
C29_Terminates ==
    /\ [][(lexResult.kind = "none" /\ lexer.current_ < Len(lexer.source_)) =>
              (lexer'.thrown \/ lexer'.current_ > lexer.current_)]_vars
    /\ [][(parseResult.kind = "parsing" /\ ~isAtEnd(parser)) =>
              (parser'.thrown \/ parser'.current_ > parser.current_)]_vars
    /\ [](/\ lexer.current_ <= Len(lexer.source_)
          /\ parseResult.kind # "none" =>
                 /\ parser.current_ < Len(parser.tokens_)
                 /\ Back(parser.tokens_).type = "EndOfFile"
                 /\ TokensOf("EndOfFile") = {Len(parser.tokens_)}
          /\ (parseResult.kind = "parsing" /\ parseResult.program.statements = <<>>) =>
                 \A k \in 0..(Len(parser.tokens_) - 1) :
                     \E stmt \in {parseStatement(ParserAt(k))} :
                         \/ stmt.p.thrown
                         \/ k < stmt.p.current_ /\ stmt.p.current_ < Len(parser.tokens_)
          /\ parseResult.kind = "program" =>
                 \E whole \in {parseProgram(NewParser(lexResult.tokens))} :
                     ~whole.p.thrown /\ whole.statements = parseResult.program.statements)
    /\ <>(lexResult.kind = "error" \/ parseResult.kind \in {"program", "error"})

\* A program with a nested block has been parsed to its end, turn by turn.
C29_Witness ==
    /\ Source = "esli (x)\n" \o "  poka (x)\n" \o "    vyvod 1\n" \o "vyvod 2\n"
    /\ parseResult.kind = "program"
    /\ Len(parseResult.program.statements) = 2
    /\ parser.current_ = Len(parser.tokens_) - 1

PowerCase == CHOOSE c \in PowerCases : c.text = Source

\* The argument list the k-th rewrite writes: the one before it, as it stands, and the
\* next operand.
RECURSIVE ArgumentList(_, _)
ArgumentList(operands, k) ==
    IF k = 1 THEN "(" \o operands[1] \o ", " \o operands[2] \o ")"
    ELSE "(" \o ArgumentList(operands, k - 1) \o ", " \o operands[k + 1] \o ")"

RECURSIVE Repeated(_, _)
Repeated(text, n) == IF n = 0 THEN "" ELSE text \o Repeated(text, n - 1)

\* The right-associative rewriting of a chain from operand k on.
RECURSIVE RightNested(_, _)
RightNested(operands, k) ==
    IF k = Len(operands) THEN operands[k]
    ELSE "std::pow(" \o operands[k] \o ", " \o RightNested(operands, k + 1) \o ")"

\* C30: convertExponent of the line-oriented translator rewrites `a ^ b` to
\* std::pow(a, b); it takes the carets of a chain from left to right, and each later
\* rewrite takes as its left operand only the parenthesised argument list of the
\* replacement before it, so that `a ^ b ^ c` becomes std::powstd::pow((a, b), c) and
\* not std::pow(a, std::pow(b, c)); it reports no error on such chains.
C30_ExponentChain ==
    (Source \in {c.text : c \in PowerCases} /\ translation.state = "converted") =>
        LET operands == PowerCase.operands
            carets == Len(operands) - 1
        IN  /\ translation.errors = <<>>
            /\ carets = 0 => translation.cppCode = Source
            /\ carets = 1 =>
                   translation.cppCode
                       = "std::pow(" \o operands[1] \o ", " \o operands[2] \o ")"
            /\ carets >= 1 =>
                   translation.cppCode
                       = Repeated("std::pow", carets) \o ArgumentList(operands, carets)
            /\ carets >= 2 => translation.cppCode # RightNested(operands, 1)

C30_Witness ==
    /\ Source = "a ^ b ^ 7"
    /\ translation.state = "converted"
    /\ translation.cppCode = "std::powstd::pow((a, b), 7)"

C30_Single ==
    /\ Source = "(a + b)^n2"
    /\ translation.state = "converted"
    /\ translation.cppCode = "std::pow((a + b), n2)"

====
